---- MODULE Spec2Model ----
(***************************************************************************)
(* Model of the push-notification server of the habit tracker:             *)
(*   habit-tracker/server/index.js          (routes, cron jobs, dispatch)  *)
(*   habit-tracker/server/subscriptions.js  (file-backed stores)           *)
(*                                                                         *)
(* Node runs one callback at a time.  An async handler runs synchronously  *)
(* up to its first pending await (a webpush send); one action of the       *)
(* model is one such run to the next pending await.  The await of a        *)
(* promise that is already settled resumes in a microtask, before any      *)
(* other callback, and so stays inside the same action.                    *)
(*                                                                         *)
(* Strings are sequences of character codes, so that the string            *)
(* comparisons and the parsing of the code are computed, not assumed.      *)
(* A value that may be null or absent is a sequence of length 0 or 1.      *)
(* File writes fail only in the write-fault track (SpecFaults).            *)
(***************************************************************************)
EXTENDS Integers, Sequences, FiniteSets, TLC

(* ------------------------------ bounds -------------------------------- *)
\* minutes the clock runs after the initial instant, around the reminder time
MaxMinutes == 4
\* minutes the clock runs after the initial instant, in the task track
MaxTaskMinutes == 2
\* PUT /settings requests in one behaviour
MaxSettingsUpdates == 1
\* POST /check-tasks requests in one behaviour
MaxRequests == 2
\* POST /subscribe and /unsubscribe requests in one behaviour
MaxSubOps == 1
\* dispatches that may be awaiting a send at the same time
MaxInFlight == 2
\* POST /send-notification requests in one behaviour
MaxTestSends == 2
\* POST /subscribe and /unsubscribe requests in one behaviour of the registry track
MaxRegistryOps == 4
\* minutes the clock runs in the registry track and in the write-fault track
MaxRegistryMinutes == 1
MaxFaultMinutes == 2

(* ------------------------------ strings ------------------------------- *)
CharCode(d) == 48 + d
Colon == CharCode(10)
Digits == {CharCode(d) : d \in 0..9}
EmptyStr == <<>>

Pad2(n) == <<CharCode(n \div 10), CharCode(n % 10)>>
\* "HH:MM"
HHMM(h, m) == Pad2(h) \o <<Colon>> \o Pad2(m)

\* a < b on JS strings: by code unit, a proper prefix is smaller
RECURSIVE StrLt(_, _)
StrLt(a, b) ==
    IF b = <<>> THEN FALSE
    ELSE IF a = <<>> THEN TRUE
    ELSE IF Head(a) # Head(b) THEN Head(a) < Head(b)
    ELSE StrLt(Tail(a), Tail(b))
StrGe(a, b) == ~StrLt(a, b)

\* truthiness of a JS string
Truthy(s) == s # EmptyStr

\* s.split(':')
RECURSIVE SplitColon(_)
SplitColon(s) ==
    IF \A i \in 1..Len(s) : s[i] # Colon THEN <<s>>
    ELSE LET p == CHOOSE i \in 1..Len(s) :
                      s[i] = Colon /\ \A k \in 1..(i - 1) : s[k] # Colon
         IN  <<SubSeq(s, 1, p - 1)>> \o SplitColon(SubSeq(s, p + 1, Len(s)))

\* Number(x) of a string of digits; NaN for anything else ("" is 0)
NaN == 0 - 1
RECURSIVE DigitsValue(_)
DigitsValue(s) ==
    IF s = <<>> THEN 0 ELSE 10 * DigitsValue(SubSeq(s, 1, Len(s) - 1)) + (s[Len(s)] - 48)
Number(s) == IF \A i \in 1..Len(s) : s[i] \in Digits THEN DigitsValue(s) ELSE NaN

\* /^\d{2}:\d{2}$/.test(s)
MatchesHHMM(s) ==
    /\ Len(s) = 5
    /\ s[3] = Colon
    /\ \A i \in {1, 2, 4, 5} : s[i] \in Digits

(* ------------------------------- time --------------------------------- *)
MsPerMinute == 60 * 1000
MinutesPerDay == 24 * 60
MsPerDay == MinutesPerDay * MsPerMinute

\* new Date().toISOString().split('T')[0]: the UTC date, here the day number
DateStr(t) == t \div MsPerDay
\* now.toTimeString().slice(0, 5): local wall-clock "HH:MM", zone offset z minutes
LocalMinuteOfDay(t, z) == ((t \div MsPerMinute) + z) % MinutesPerDay
LocalDay(t, z) == ((t \div MsPerMinute) + z) \div MinutesPerDay
TimeStr(t, z) == HHMM(LocalMinuteOfDay(t, z) \div 60, LocalMinuteOfDay(t, z) % 60)

(* ------------------------ reminder-time predicates --------------------- *)
Abs(x) == IF x < 0 THEN 0 - x ELSE x

\* [h, m] = s.split(':').map(Number); h * 60 + m
HourMinuteValue(s) ==
    LET p == SplitColon(s)
    IN  IF Len(p) < 2 THEN NaN
        ELSE IF Number(p[1]) = NaN \/ Number(p[2]) = NaN THEN NaN
        ELSE Number(p[1]) * 60 + Number(p[2])

isWithinReminderWindowOff(currentTime, targetTime) ==
    LET currentMinutes == HourMinuteValue(currentTime)
        targetMinutes == HourMinuteValue(targetTime)
    IN  /\ currentMinutes # NaN
        /\ targetMinutes # NaN
        /\ Abs(currentMinutes - targetMinutes) <= 2

isWithinReminderWindow(currentTime, targetTime) ==
    LET currentMinutes == HourMinuteValue(currentTime)
        targetMinutes == HourMinuteValue(targetTime)
    IN  /\ currentMinutes # NaN
        /\ targetMinutes # NaN
        /\ Abs(currentMinutes - targetMinutes) <= 1

isInQuietHoursNoWrap(current, start, end) ==
    StrGe(current, start) /\ StrLt(current, end)

isInQuietHours(current, start, end) ==
    IF StrLt(end, start)
    THEN StrGe(current, start) \/ StrLt(current, end)
    ELSE StrGe(current, start) /\ StrLt(current, end)

(* ------------------------------ values -------------------------------- *)
\* null / undefined / a missing file
Null == <<>>
Some(x) == <<x>>
\* the three stores; a file holds Null (missing), Some(v) (the JSON of v) or
\* Torn (text that JSON.parse rejects: an empty or incomplete document)
Files == {"subs", "state", "settings"}
Torn == <<0, 0>>
\* existsSync is false, or readFileSync / JSON.parse throws into the catch
Unreadable(file) == Len(file) # 1

Endpoints == {"e1", "e2"}
TaskIds == {"t1", "t2"}
\* UTC offsets of the server's zone, in minutes (UTC and UTC-4)
TzOffsets == {0, 0 - 240}

\* what webpush.sendNotification settles with: 201 resolves, the others reject
\* with that statusCode; 0 is a rejection without statusCode (network error)
StatusNotFound == 404
StatusGone == 410
SendOutcomes == {201, StatusNotFound, StatusGone, 500, 0}
Resolves(status) == status = 201

\* x with key k set to v (obj[k] = v)
Put(f, k, v) == [x \in (DOMAIN f) \cup {k} |-> IF x = k THEN v ELSE f[x]]
\* { ...a, ...b }
Spread(a, b) == [x \in (DOMAIN a) \cup (DOMAIN b) |-> IF x \in DOMAIN b THEN b[x] ELSE a[x]]

(* ----------------------------- variables ------------------------------ *)
VARIABLES
    tz,            \* UTC offset of the server's zone, minutes
    t0,            \* the initial instant (UTC, ms)
    horizon,       \* minutes the clock runs
    elapsed,       \* minutes since the initial instant
    settingsFile,  \* settings.json
    stateFile,     \* notificationState.json
    defaultTN,     \* DEFAULT_STATE.taskNotifications (process memory)
    subsFile,      \* subscriptions.json
    jobs,          \* handlers suspended in sendToAllSubscribers, awaiting a send
    nUpdates,      \* PUT /settings requests so far
    nRequests,     \* POST /check-tasks requests so far
    nSubOps,       \* POST /subscribe and /unsubscribe requests so far
    dayCalls,      \* habit dispatch calls this local day since reminderTime last changed
    refire,        \* reminderTime changed after a habit dispatch call of today, no call since
    taskCalls,     \* dispatch calls per task id
    ev,            \* what the last step did
    fin,           \* input of the function under check
    fout,          \* its result
    faults,        \* the files whose writes fail at present
    tmp,           \* the temporary files next to the stores
    wr,            \* the file write in progress, step by step
    nTests,        \* POST /send-notification requests so far
    hook,          \* the browser: the useTaskNotifications hook, its timers, the tab
    localStorage   \* the browser: window.localStorage, by key

vars == <<tz, t0, horizon, elapsed, settingsFile, stateFile, defaultTN, subsFile, jobs, nUpdates,
          nRequests, nSubOps, dayCalls, refire, taskCalls, ev, fin, fout, faults, tmp, wr,
          nTests, hook, localStorage>>
serverVars == <<tz, t0, horizon, elapsed, settingsFile, stateFile, defaultTN, subsFile, jobs, nUpdates,
                nRequests, nSubOps, dayCalls, refire, taskCalls, ev, faults, tmp, wr, nTests>>
funVars == <<fin, fout>>
diskVars == <<faults, tmp, wr>>
browserVars == <<hook, localStorage>>

(* ----------------------------- settings ------------------------------- *)
DEFAULT_SETTINGS ==
    [reminderTime |-> HHMM(20, 0),
     habitRemindersEnabled |-> TRUE,
     taskRemindersEnabled |-> TRUE,
     quietHoursEnabled |-> FALSE,
     quietHoursStart |-> HHMM(22, 0),
     quietHoursEnd |-> HHMM(8, 0)]

loadSettings(file) ==
    IF Unreadable(file) THEN DEFAULT_SETTINGS ELSE Spread(DEFAULT_SETTINGS, file[1])

\* saveSettings writes the file in place: a write that fails throws and leaves
\* the old text or a truncated one
saveSettingsThrows == "settings" \in faults
saveSettings(file, settings) ==
    IF saveSettingsThrows THEN {file, Torn} ELSE {Some(settings)}

(* ------------------------- notification state ------------------------- *)
\* A store is the state file together with DEFAULT_STATE.taskNotifications, the
\* one object every default state shares ({ ...DEFAULT_STATE } copies the
\* reference).
DEFAULT_STATE(dflt) == [habitReminderLastSent |-> Null, taskNotifications |-> dflt]

loadNotificationState(st) ==
    IF Unreadable(st.file) THEN DEFAULT_STATE(st.dflt)
    ELSE Spread(DEFAULT_STATE(st.dflt), st.file[1])

\* temp file and rename inside try/catch: a write that fails leaves the file
\* as it was, and the catch only logs
saveNotificationStateFails == "state" \in faults
saveNotificationState(st, state) ==
    IF saveNotificationStateFails THEN st ELSE [st EXCEPT !.file = Some(state)]

wasHabitReminderSentToday(st, t) ==
    loadNotificationState(st).habitReminderLastSent = Some(DateStr(t))

markHabitReminderSentFresh(st, t) ==
    saveNotificationState(st, [DEFAULT_STATE(<<>>) EXCEPT
                                   !.habitReminderLastSent = Some(DateStr(t))])
markHabitReminderSent(st, t) ==
    LET state == loadNotificationState(st)
    IN  saveNotificationState(st, [state EXCEPT !.habitReminderLastSent = Some(DateStr(t))])

\* !!state.taskNotifications[taskId]
wasTaskNotificationSent(st, taskId) ==
    LET tn == loadNotificationState(st).taskNotifications
    IN  taskId \in DOMAIN tn /\ tn[taskId] # 0

\* state.taskNotifications[taskId] = Date.now() writes into the shared default
\* object when the state came from the defaults
markTaskNotificationSent(st, taskId, t) ==
    LET state == loadNotificationState(st)
        tn == Put(state.taskNotifications, taskId, t)
        aliased == Unreadable(st.file)
    IN  saveNotificationState([st EXCEPT !.dflt = IF aliased THEN tn ELSE @],
                              [state EXCEPT !.taskNotifications = tn])

SevenDays == 7 * 24 * 60 * 60 * 1000
cleanupOldTaskNotificationsInclusive(st, t) ==
    LET state == loadNotificationState(st)
        weekAgo == t - SevenDays
        keep == {id \in DOMAIN state.taskNotifications :
                     state.taskNotifications[id] >= weekAgo}
        cleaned == [id \in keep |-> state.taskNotifications[id]]
    IN  saveNotificationState(st, [state EXCEPT !.taskNotifications = cleaned])
cleanupOldTaskNotifications(st, t) ==
    LET state == loadNotificationState(st)
        weekAgo == t - SevenDays
        keep == {id \in DOMAIN state.taskNotifications :
                     state.taskNotifications[id] > weekAgo}
        cleaned == [id \in keep |-> state.taskNotifications[id]]
    IN  saveNotificationState(st, [state EXCEPT !.taskNotifications = cleaned])

(* --------------------------- subscriptions ---------------------------- *)
loadSubscriptions(file) == IF Unreadable(file) THEN <<>> ELSE file[1]
\* temp file and rename: a write that fails throws and leaves the file as it was
saveSubscriptionsThrows == "subs" \in faults
saveSubscriptions(subs) == Some(subs)
getAllSubscriptions(file) == loadSubscriptions(file)

addSubscriptionExistsNever(file, endpoint) == FALSE
\* the file after addSubscription, and what it returns
addSubscriptionExists(file, endpoint) ==
    \E i \in 1..Len(loadSubscriptions(file)) : loadSubscriptions(file)[i].endpoint = endpoint
addSubscriptionAlways(file, endpoint, t) ==
    saveSubscriptions(Append(loadSubscriptions(file), [endpoint |-> endpoint, createdAt |-> t]))
addSubscriptionThrows(file, endpoint) ==
    ~addSubscriptionExists(file, endpoint) /\ saveSubscriptionsThrows
addSubscription(file, endpoint, t) ==
    IF addSubscriptionExists(file, endpoint) \/ saveSubscriptionsThrows THEN file
    ELSE saveSubscriptions(Append(loadSubscriptions(file),
                                  [endpoint |-> endpoint, createdAt |-> t]))

\* the file after removeSubscription, and what it returns
removeSubscriptionFound(file, endpoint) ==
    \E i \in 1..Len(loadSubscriptions(file)) : loadSubscriptions(file)[i].endpoint = endpoint
removeSubscriptionThrows(file, endpoint) ==
    removeSubscriptionFound(file, endpoint) /\ saveSubscriptionsThrows
removeSubscriptionAll(file, endpoint) ==
    IF removeSubscriptionFound(file, endpoint) /\ ~saveSubscriptionsThrows
    THEN saveSubscriptions(<<>>) ELSE file
removeSubscription(file, endpoint) ==
    LET subs == loadSubscriptions(file)
        Other(s) == s.endpoint # endpoint
        filtered == SelectSeq(subs, Other)
    IN  IF Len(filtered) < Len(subs) /\ ~saveSubscriptionsThrows
        THEN saveSubscriptions(filtered) ELSE file

(* ------------------------------- tasks -------------------------------- *)
thirtyMinutes == 30 * 60 * 1000

DueSoonCandidateClosed(task, t) ==
    /\ task.priority = "High" \/ task.priority = "Critical"
    /\ task.status # "Completed"
    /\ task.dueDate # Null
    /\ LET timeUntilDue == task.dueDate[1] - t
       IN  timeUntilDue >= 0 /\ timeUntilDue <= thirtyMinutes

\* the test of POST /check-tasks on one task, before the dedup lookup
DueSoonCandidate(task, t) ==
    /\ task.priority = "High" \/ task.priority = "Critical"
    /\ task.status # "Completed"
    /\ task.dueDate # Null
    /\ LET timeUntilDue == task.dueDate[1] - t
       IN  timeUntilDue > 0 /\ timeUntilDue <= thirtyMinutes

\* the instant of h:m local time on day 1, zone offset z
StartUtc(z, h, m) == (MinutesPerDay + h * 60 + m - z) * MsPerMinute
NowOf(e) == t0 + e * MsPerMinute
\* Date.now()
Now == NowOf(elapsed)

Store == [file |-> stateFile, dflt |-> defaultTN]

\* task descriptors the frontend may submit
Task(id, priority, status, dueDate) ==
    [id |-> id, priority |-> priority, status |-> status, dueDate |-> dueDate]
TaskA(t) == Task("t1", "High", "Planned", Some(t + 20 * MsPerMinute))
TaskB(t) == Task("t2", "Critical", "InProgress", Some(t + 2 * MsPerMinute))
TaskLow(t) == Task("t2", "Low", "Planned", Some(t + 20 * MsPerMinute))
TaskLists(t) == {<<TaskA(t)>>, <<TaskB(t), TaskLow(t), TaskA(t), TaskA(t)>>}

\* bodies of PUT /settings
SettingsUpdates ==
    {[reminderTime |-> HHMM(20, 2)],
     [reminderTime |-> HHMM(20, 0)],
     [reminderTime |-> EmptyStr],
     [reminderTime |-> <<CharCode(8), Colon, CharCode(0), CharCode(0)>>],
     [habitRemindersEnabled |-> FALSE],
     [quietHoursEnabled |-> TRUE, quietHoursStart |-> HHMM(20, 1)],
     [quietHoursEnabled |-> TRUE, quietHoursStart |-> HHMM(19, 0), quietHoursEnd |-> HHMM(20, 0)]}

NoEvent == [op |-> "none"]

\* the browser before the page is loaded: the hook not mounted, no timer,
\* the tab visible, nothing stored
STORAGE_KEYS == {"habits", "tasks", "app_settings", "schema_version"}
UnmountedHook ==
    [mounted |-> FALSE, inits |-> 0, isActive |-> FALSE, intervalRef |-> Null,
     intervals |-> {}, timeouts |-> 0, visible |-> TRUE, nStarts |-> 0, nMounts |-> 0,
     stopped |-> FALSE]
InitBrowser ==
    /\ hook = UnmountedHook
    /\ localStorage = [key \in STORAGE_KEYS |-> Null]

\* registries the server may start with
OneSubscription == Some(<<[endpoint |-> "e1", createdAt |-> 0]>>)
TwoSubscriptions == Some(<<[endpoint |-> "e1", createdAt |-> 0],
                           [endpoint |-> "e2", createdAt |-> 0]>>)

InitServer ==
    /\ elapsed = 0
    /\ settingsFile = Null
    /\ stateFile = Null
    /\ defaultTN = <<>>
    /\ jobs = {}
    /\ nUpdates = 0
    /\ nRequests = 0
    /\ nSubOps = 0
    /\ dayCalls = 0
    /\ refire = FALSE
    /\ taskCalls = [id \in TaskIds |-> 0]
    /\ ev = NoEvent
    /\ faults = {}
    /\ tmp = [f \in Files |-> Null]
    /\ wr = Null
    /\ nTests = 0

(* ----------------------------- dispatch ------------------------------- *)
SnapshotFirst(file) ==
    [i \in 1..(IF Len(getAllSubscriptions(file)) = 0 THEN 0 ELSE 1) |->
        getAllSubscriptions(file)[i].endpoint]
\* the endpoints of the array sendToAllSubscribers iterates over
Snapshot(file) ==
    [i \in 1..Len(getAllSubscriptions(file)) |-> getAllSubscriptions(file)[i].endpoint]

\* A handler suspended inside sendToAllSubscribers: it awaits the send to
\* subs[i].  kind "habit": the cron callback n (inside sendHabitReminder);
\* kind "task": request n of POST /check-tasks, at tasks[k], with `now`
\* captured in nowAt and `sent` so far; called lists the task ids it has made a
\* dispatch call for.
Job(kind, n, subs, tasks, k, nowAt, sent, called) ==
    [kind |-> kind, n |-> n, subs |-> subs, i |-> 1, success |-> 0, failed |-> 0,
     tasks |-> tasks, k |-> k, nowAt |-> nowAt, sent |-> sent, called |-> called]

\* the catch block of sendToAllSubscribers: the subscriptions file afterwards
PruneStatusAll(status) == TRUE
PruneStatusGoneOnly(status) == status = StatusGone
PruneStatus(status) == status = StatusGone \/ status = StatusNotFound
AfterSend(file, endpoint, status) ==
    IF ~Resolves(status) /\ PruneStatus(status)
    THEN removeSubscription(file, endpoint)
    ELSE file

\* the for-of loop of sendToAllSubscribers has no subscription left
LoopDoneEarly(job) == TRUE
LoopDone(job) == job.i = Len(job.subs)

(* ------------------------ daily habit reminder ------------------------ *)
QuietHoursIgnored(settings, currentTime) == FALSE
\* lines 327-334 of the cron callback: quiet hours stop the tick
QuietHoursActive(settings, currentTime) ==
    /\ settings.quietHoursEnabled
    /\ LET start == IF Truthy(settings.quietHoursStart)
                    THEN settings.quietHoursStart ELSE HHMM(22, 0)
           end == IF Truthy(settings.quietHoursEnd)
                  THEN settings.quietHoursEnd ELSE HHMM(8, 0)
       IN  isInQuietHours(currentTime, start, end)

\* the cron callback reaches sendHabitReminder
CronReachesReminder(file, t, z) ==
    LET settings == loadSettings(file)
        currentTime == TimeStr(t, z)
        reminderTime == IF Truthy(settings.reminderTime)
                        THEN settings.reminderTime ELSE HHMM(20, 0)
    IN  /\ settings.habitRemindersEnabled
        /\ isWithinReminderWindow(currentTime, reminderTime)
        /\ ~QuietHoursActive(settings, currentTime)

\* sendHabitReminder gets past its two early returns
ReminderProceedsAlways(st, subs, t) == Len(getAllSubscriptions(subs)) # 0
ReminderProceeds(st, subs, t) ==
    /\ ~wasHabitReminderSentToday(st, t)
    /\ Len(getAllSubscriptions(subs)) # 0

\* after `await sendToAllSubscribers(payload)` in sendHabitReminder
HabitMarkIfDelivered(st, job, t) ==
    IF job.success > 0 THEN markHabitReminderSent(st, t) ELSE st
HabitAfterDispatch(st, job, t) == markHabitReminderSent(st, t)

\* both cron callbacks of one minute boundary, in the order they were
\* scheduled: the habit reminder, then (every fifth minute) the cleanup
CronMinute ==
    /\ elapsed < horizon
    /\ LET t == NowOf(elapsed + 1)
           newDay == LocalDay(t, tz) # LocalDay(Now, tz)
           fire == CronReachesReminder(settingsFile, t, tz)
                       /\ ReminderProceeds(Store, subsFile, t)
           st1 == IF LocalMinuteOfDay(t, tz) % 5 = 0
                  THEN cleanupOldTaskNotifications(Store, t) ELSE Store
       IN  /\ fire => Cardinality(jobs) < MaxInFlight
           /\ elapsed' = elapsed + 1
           /\ jobs' = IF fire
                      THEN jobs \cup {Job("habit", elapsed + 1, Snapshot(subsFile),
                                          <<>>, 0, t, 0, <<>>)}
                      ELSE jobs
           /\ stateFile' = st1.file
           /\ defaultTN' = st1.dflt
           /\ dayCalls' = (IF newDay THEN 0 ELSE dayCalls) + (IF fire THEN 1 ELSE 0)
           /\ refire' = IF fire \/ newDay THEN FALSE ELSE refire
           /\ ev' = [op |-> "tick", n |-> elapsed + 1, fired |-> fire]
    /\ UNCHANGED <<tz, t0, horizon, settingsFile, subsFile, nUpdates, nRequests, nSubOps, taskCalls>>
    /\ UNCHANGED <<funVars, browserVars>>
    /\ UNCHANGED <<diskVars, nTests>>

(* ------------------------- POST /check-tasks -------------------------- *)
wasTaskNotificationSentNever(st, taskId) == FALSE
\* the `continue` of "Skip if already notified"
AlreadyNotified(st, taskId) == wasTaskNotificationSent(st, taskId)

\* The for-of loop of the handler from tasks[k] on, up to the next pending
\* await or the end of the list.  With no subscription sendToAllSubscribers
\* returns at once and the loop goes on: the task is marked and counted.
\* acc = [st: the state store, sent, tc: dispatch calls per task id, called]
RECURSIVE Scan(_, _, _, _, _, _)
Scan(tasks, k, acc, noSubs, nowAt, t) ==
    IF k > Len(tasks) THEN [k |-> k] @@ acc
    ELSE LET task == tasks[k]
         IN  IF ~DueSoonCandidate(task, nowAt) \/ AlreadyNotified(acc.st, task.id)
             THEN Scan(tasks, k + 1, acc, noSubs, nowAt, t)
             ELSE LET tc1 == [acc.tc EXCEPT ![task.id] = @ + 1]
                      called1 == Append(acc.called, task.id)
                  IN  IF noSubs
                      THEN Scan(tasks, k + 1,
                                [st |-> markTaskNotificationSent(acc.st, task.id, t),
                                 sent |-> acc.sent + 1, tc |-> tc1, called |-> called1],
                                noSubs, nowAt, t)
                      ELSE [k |-> k, st |-> acc.st, sent |-> acc.sent,
                            tc |-> tc1, called |-> called1]

\* the handler runs from tasks[k] with the accumulators acc: it suspends in the
\* next dispatch or answers { sent }
RunCheckTasks(n, tasks, k, acc, nowAt, subs, others) ==
    LET r == Scan(tasks, k, acc, Len(getAllSubscriptions(subs)) = 0, nowAt, Now)
        suspended == r.k <= Len(tasks)
    IN  /\ suspended => Cardinality(others) < MaxInFlight
        /\ jobs' = IF suspended
                   THEN others \cup {Job("task", n, Snapshot(subs), tasks, r.k, nowAt,
                                         r.sent, r.called)}
                   ELSE others
        /\ stateFile' = r.st.file
        /\ defaultTN' = r.st.dflt
        /\ taskCalls' = r.tc
        /\ ev' = [op |-> "checkTasks", n |-> n, tasks |-> tasks, nowAt |-> nowAt,
                  called |-> r.called, responded |-> ~suspended, sent |-> r.sent]

CheckTasks(tasks) ==
    /\ nRequests < MaxRequests
    /\ nRequests' = nRequests + 1
    /\ RunCheckTasks(nRequests + 1, tasks, 1,
                     [st |-> Store, sent |-> 0, tc |-> taskCalls, called |-> <<>>],
                     Now, subsFile, jobs)
    /\ UNCHANGED <<tz, t0, horizon, elapsed, settingsFile, subsFile, nUpdates, nSubOps, dayCalls, refire>>
    /\ UNCHANGED <<funVars, browserVars>>
    /\ UNCHANGED <<diskVars, nTests>>

(* --------------------- a pending send settles ------------------------- *)
\* removeSubscription throws inside the catch block of sendToAllSubscribers:
\* the exception leaves the loop, the function and the handler awaiting it
PruneThrows(file, endpoint, status) ==
    /\ ~Resolves(status)
    /\ PruneStatus(status)
    /\ removeSubscriptionThrows(file, endpoint)

\* what the last step records about a send
SendEvent(job, status, returned, thrown) ==
    [op |-> "send", kind |-> job.kind, n |-> job.n, endpoint |-> job.subs[job.i],
     status |-> status, returned |-> returned, thrown |-> thrown,
     success |-> job.success + (IF Resolves(status) THEN 1 ELSE 0),
     failed |-> job.failed + (IF Resolves(status) THEN 0 ELSE 1),
     total |-> Len(job.subs)]

\* webpush.sendNotification for job.subs[job.i] settles with `status`; the
\* handler runs on to its next pending await or to its end.  An exception
\* that leaves an async handler is a rejection nobody handles: the process
\* goes on without that handler, or ends and is started again.
SendSettles(job, status) ==
    /\ job \in jobs
    /\ LET endpoint == job.subs[job.i]
           subs1 == AfterSend(subsFile, endpoint, status)
           thrown == PruneThrows(subsFile, endpoint, status)
           counted == [job EXCEPT !.success = @ + (IF Resolves(status) THEN 1 ELSE 0),
                                  !.failed = @ + (IF Resolves(status) THEN 0 ELSE 1)]
       IN  /\ subsFile' = subs1
           /\ IF thrown
              THEN \E dies \in BOOLEAN :
                       /\ jobs' = IF dies THEN {} ELSE jobs \ {job}
                       /\ defaultTN' = IF dies THEN <<>> ELSE defaultTN
                       /\ ev' = SendEvent(job, status, FALSE, TRUE)
                       /\ UNCHANGED <<stateFile, taskCalls>>
              ELSE IF ~LoopDone(job)
              THEN /\ jobs' = (jobs \ {job}) \cup {[counted EXCEPT !.i = @ + 1]}
                   /\ ev' = SendEvent(job, status, FALSE, FALSE)
                   /\ UNCHANGED <<stateFile, defaultTN, taskCalls>>
              ELSE IF job.kind = "habit"
              THEN LET st1 == HabitAfterDispatch(Store, counted, Now)
                   IN  /\ jobs' = jobs \ {job}
                       /\ stateFile' = st1.file
                       /\ defaultTN' = st1.dflt
                       /\ ev' = SendEvent(job, status, TRUE, FALSE)
                       /\ UNCHANGED taskCalls
              ELSE IF job.kind = "test"
              THEN /\ jobs' = jobs \ {job}
                   /\ ev' = SendEvent(job, status, TRUE, FALSE)
                   /\ UNCHANGED <<stateFile, defaultTN, taskCalls>>
              ELSE RunCheckTasks(job.n, job.tasks, job.k + 1,
                                 [st |-> markTaskNotificationSent(
                                             Store, job.tasks[job.k].id, Now),
                                  sent |-> job.sent + 1, tc |-> taskCalls,
                                  called |-> job.called],
                                 job.nowAt, subs1, jobs \ {job})
    /\ UNCHANGED <<tz, t0, horizon, elapsed, settingsFile, nUpdates, nRequests, nSubOps, dayCalls, refire>>
    /\ UNCHANGED <<funVars, browserVars>>
    /\ UNCHANGED <<diskVars, nTests>>

(* ----------------------- POST /send-notification ---------------------- *)
\* a request with title and body: the payload goes to every subscriber and
\* the counts are the answer
SendNotification ==
    /\ nTests < MaxTestSends
    /\ nTests' = nTests + 1
    /\ LET subs == Snapshot(subsFile)
       IN  IF Len(subs) = 0
           THEN /\ jobs' = jobs
                /\ ev' = [op |-> "sendNotification", n |-> nTests + 1, responded |-> TRUE,
                          success |-> 0, failed |-> 0, total |-> 0]
           ELSE /\ Cardinality(jobs) < MaxInFlight
                /\ jobs' = jobs \cup {Job("test", nTests + 1, subs, <<>>, 0, Now, 0, <<>>)}
                /\ ev' = [op |-> "sendNotification", n |-> nTests + 1, responded |-> FALSE,
                          success |-> 0, failed |-> 0, total |-> Len(subs)]
    /\ UNCHANGED <<tz, t0, horizon, elapsed, settingsFile, stateFile, defaultTN, subsFile,
                   nUpdates, nRequests, nSubOps, dayCalls, refire, taskCalls>>
    /\ UNCHANGED <<funVars, browserVars>>
    /\ UNCHANGED diskVars

(* --------------------------- PUT /settings ---------------------------- *)
\* the condition under which updateSettings resets the daily reminder state
ResetsOnAnyUpdate(current, updates) == TRUE
ResetsReminderState(current, updates) ==
    /\ "reminderTime" \in DOMAIN updates
    /\ Truthy(updates.reminderTime)
    /\ updates.reminderTime # current.reminderTime

\* updateSettings(updates): the state store and the settings file afterwards
updateSettingsState(st, file, updates) ==
    LET current == loadSettings(file)
    IN  IF ResetsReminderState(current, updates)
        THEN LET state == loadNotificationState(st)
             IN  saveNotificationState(st, [state EXCEPT !.habitReminderLastSent = Null])
        ELSE st
\* the settings file after updateSettings: the outcomes of saveSettings
updateSettings(file, updates) == saveSettings(file, Spread(loadSettings(file), updates))

PutSettingsRejectsNever(updates) == FALSE
\* the validation of the route: 400 for a reminderTime that is not \d{2}:\d{2}
PutSettingsRejects(updates) ==
    /\ "reminderTime" \in DOMAIN updates
    /\ Truthy(updates.reminderTime)
    /\ ~MatchesHHMM(updates.reminderTime)

PutSettings(updates) ==
    /\ nUpdates < MaxSettingsUpdates
    /\ nUpdates' = nUpdates + 1
    /\ LET current == loadSettings(settingsFile)
           rejected == PutSettingsRejects(updates)
           st1 == IF rejected THEN Store ELSE updateSettingsState(Store, settingsFile, updates)
           thrown == ~rejected /\ saveSettingsThrows
       IN  \E file1 \in (IF rejected THEN {settingsFile}
                         ELSE updateSettings(settingsFile, updates)) :
               LET changed == loadSettings(file1).reminderTime # current.reminderTime
               IN  /\ settingsFile' = file1
                   /\ stateFile' = st1.file
                   /\ defaultTN' = st1.dflt
                   /\ dayCalls' = IF changed THEN 0 ELSE dayCalls
                   /\ refire' = IF changed THEN (dayCalls > 0 \/ refire) ELSE refire
                   /\ ev' = [op |-> "putSettings", updates |-> updates,
                             status |-> IF rejected THEN 400
                                        ELSE IF thrown THEN 500 ELSE 200]
    /\ UNCHANGED <<tz, t0, horizon, elapsed, subsFile, jobs, nRequests, nSubOps, taskCalls>>
    /\ UNCHANGED <<funVars, browserVars>>
    /\ UNCHANGED <<diskVars, nTests>>

(* ------------------- POST /subscribe, /unsubscribe -------------------- *)
\* the routes; an exception thrown by a synchronous handler is answered 500
SubscribeRoute(endpoint) ==
    /\ nSubOps' = nSubOps + 1
    /\ subsFile' = addSubscription(subsFile, endpoint, Now)
    /\ ev' = [op |-> "subscribe", endpoint |-> endpoint,
              status |-> IF addSubscriptionThrows(subsFile, endpoint) THEN 500
                         ELSE IF addSubscriptionExists(subsFile, endpoint) THEN 200
                         ELSE 201]
    /\ UNCHANGED <<tz, t0, horizon, elapsed, settingsFile, stateFile, defaultTN, jobs, nUpdates,
                   nRequests, dayCalls, refire, taskCalls>>
    /\ UNCHANGED <<funVars, browserVars>>
    /\ UNCHANGED <<diskVars, nTests>>

UnsubscribeRoute(endpoint) ==
    /\ nSubOps' = nSubOps + 1
    /\ subsFile' = removeSubscription(subsFile, endpoint)
    /\ ev' = [op |-> "unsubscribe", endpoint |-> endpoint,
              status |-> IF removeSubscriptionThrows(subsFile, endpoint) THEN 500
                         ELSE IF removeSubscriptionFound(subsFile, endpoint) THEN 200
                         ELSE 404]
    /\ UNCHANGED <<tz, t0, horizon, elapsed, settingsFile, stateFile, defaultTN, jobs, nUpdates,
                   nRequests, dayCalls, refire, taskCalls>>
    /\ UNCHANGED <<funVars, browserVars>>
    /\ UNCHANGED <<diskVars, nTests>>

Subscribe(endpoint) == nSubOps < MaxSubOps /\ SubscribeRoute(endpoint)
Unsubscribe(endpoint) == nSubOps < MaxSubOps /\ UnsubscribeRoute(endpoint)

(* ------------------------- the process restarts ----------------------- *)
\* the files stay; the handlers in progress and the objects in memory are gone
RestartFresh ==
    /\ jobs' = {}
    /\ defaultTN' = <<>>
    /\ stateFile' = Null
    /\ wr' = Null
    /\ ev' = [op |-> "restart"]
    /\ UNCHANGED <<tz, t0, horizon, elapsed, settingsFile, subsFile, nUpdates,
                   nRequests, nSubOps, dayCalls, refire, taskCalls, faults, tmp, nTests>>
    /\ UNCHANGED <<funVars, browserVars>>
Restart ==
    /\ jobs' = {}
    /\ defaultTN' = <<>>
    /\ wr' = Null
    /\ ev' = [op |-> "restart"]
    /\ UNCHANGED <<tz, t0, horizon, elapsed, settingsFile, stateFile, subsFile, nUpdates,
                   nRequests, nSubOps, dayCalls, refire, taskCalls, faults, tmp, nTests>>
    /\ UNCHANGED <<funVars, browserVars>>

(* --------------------------- the server ------------------------------- *)
\* the server two minutes before the default reminder time
InitDaily ==
    /\ tz \in TzOffsets
    /\ t0 = StartUtc(tz, 19, 58)
    /\ horizon = MaxMinutes
    /\ subsFile \in {Null, OneSubscription, TwoSubscriptions}
    /\ InitServer
    /\ fin = Null
    /\ fout = Null
    /\ InitBrowser

\* the server in the morning, far from the reminder time
InitTasks ==
    /\ tz = 0
    /\ t0 = StartUtc(tz, 9, 58)
    /\ horizon = MaxTaskMinutes
    /\ subsFile \in {Null, TwoSubscriptions}
    /\ InitServer
    /\ fin = Null
    /\ fout = Null
    /\ InitBrowser

\* the daily reminder track: the cron jobs, the sends, the settings and the
\* registry requests
NextDaily ==
    \/ CronMinute
    \/ \E job \in jobs, status \in SendOutcomes : SendSettles(job, status)
    \/ \E updates \in SettingsUpdates : PutSettings(updates)
    \/ \E endpoint \in Endpoints : Subscribe(endpoint)
    \/ \E endpoint \in Endpoints : Unsubscribe(endpoint)

SpecDaily == InitDaily /\ [][NextDaily]_vars

\* the task due-soon track: the cron jobs, the sends, POST /check-tasks and the
\* registry requests
NextTasks ==
    \/ CronMinute
    \/ \E tasks \in TaskLists(t0) : CheckTasks(tasks)
    \/ \E job \in jobs, status \in SendOutcomes : SendSettles(job, status)
    \/ \E endpoint \in Endpoints : Subscribe(endpoint)
    \/ \E endpoint \in Endpoints : Unsubscribe(endpoint)

SpecTasks == InitTasks /\ [][NextTasks]_vars

(* ------------------------- isInQuietHours alone ----------------------- *)
\* times of day the function is applied to
QuietTimes == {HHMM(h, m) : h \in {0, 2, 8, 9, 21, 22, 23}, m \in {0, 59}}

InitQuiet ==
    /\ tz = 0
    /\ t0 = StartUtc(tz, 19, 58)
    /\ horizon = 0
    /\ subsFile = Null
    /\ InitServer
    /\ fin \in [current : QuietTimes, start : QuietTimes, end : QuietTimes]
    /\ fout = Null
    /\ InitBrowser

\* the call of the cron callback: isInQuietHours(currentTime, start, end)
ApplyQuietHours ==
    /\ fout = Null
    /\ fout' = Some(isInQuietHours(fin.current, fin.start, fin.end))
    /\ UNCHANGED fin
    /\ UNCHANGED <<serverVars, browserVars>>

NextQuiet == ApplyQuietHours

SpecQuiet == InitQuiet /\ [][NextQuiet]_vars

(* -------------------------- the registry track ------------------------ *)
RegistryEndpoints == {"e1", "e2", "e3"}

\* the server in the morning with no subscription stored
InitRegistry ==
    /\ tz = 0
    /\ t0 = StartUtc(tz, 9, 58)
    /\ horizon = MaxRegistryMinutes
    /\ subsFile = Null
    /\ InitServer
    /\ fin = Null
    /\ fout = Null
    /\ InitBrowser

RegistrySubscribe(endpoint) == nSubOps < MaxRegistryOps /\ SubscribeRoute(endpoint)
RegistryUnsubscribe(endpoint) == nSubOps < MaxRegistryOps /\ UnsubscribeRoute(endpoint)

\* the registry requests, test dispatches with their sends, the cron jobs and
\* restarts
NextRegistry ==
    \/ CronMinute
    \/ \E endpoint \in RegistryEndpoints : RegistrySubscribe(endpoint)
    \/ \E endpoint \in RegistryEndpoints : RegistryUnsubscribe(endpoint)
    \/ SendNotification
    \/ \E job \in jobs, status \in SendOutcomes : SendSettles(job, status)
    \/ Restart

SpecRegistry == InitRegistry /\ [][NextRegistry]_vars

(* ------------------------- the write-fault track ---------------------- *)
\* the files whose writes fail together (a full disk, a read-only file)
FaultSets == {{}, {"subs"}, {"state"}, {"settings"}}

\* the environment: writes to the files of F fail from now on, the others work
DiskChanges(F) ==
    /\ F # faults
    /\ faults' = F
    /\ ev' = [op |-> "disk"]
    /\ UNCHANGED <<tz, t0, horizon, elapsed, settingsFile, stateFile, defaultTN, subsFile, jobs,
                   nUpdates, nRequests, nSubOps, dayCalls, refire, taskCalls, tmp, wr, nTests>>
    /\ UNCHANGED <<funVars, browserVars>>

\* the server one minute before the default reminder time, two subscriptions
InitFaults ==
    /\ tz = 0
    /\ t0 = StartUtc(tz, 19, 59)
    /\ horizon = MaxFaultMinutes
    /\ subsFile = TwoSubscriptions
    /\ InitServer
    /\ fin = Null
    /\ fout = Null
    /\ InitBrowser

\* the daily reminder track on a disk whose writes may fail
NextFaults ==
    \/ CronMinute
    \/ \E job \in jobs, status \in SendOutcomes : SendSettles(job, status)
    \/ \E updates \in SettingsUpdates : PutSettings(updates)
    \/ \E endpoint \in Endpoints : Subscribe(endpoint)
    \/ \E endpoint \in Endpoints : Unsubscribe(endpoint)
    \/ \E F \in FaultSets : DiskChanges(F)

SpecFaults == InitFaults /\ [][NextFaults]_vars

(* ------------------- a save, one file operation at a time -------------- *)
\* The process can stop between any two file operations of a save.
\* writeFileSync opens its target with truncation and then writes the text;
\* renameSync replaces the store by the temporary file in one operation.
AtomicReplaceNever(name) == FALSE
\* saveSubscriptions and saveNotificationState write a temporary file and
\* rename it; saveSettings writes settings.json itself
AtomicReplace(name) == name \in {"subs", "state"}

FileOf(name) ==
    IF name = "subs" THEN subsFile
    ELSE IF name = "state" THEN stateFile
    ELSE settingsFile

\* the saves the handlers make in the present state: the store and its new text
SaveCalls ==
    LET calls ==
            {[file |-> "subs", text |-> addSubscription(subsFile, e, Now)] : e \in Endpoints}
            \cup {[file |-> "subs", text |-> removeSubscription(subsFile, e)] : e \in Endpoints}
            \cup {[file |-> "state", text |-> markHabitReminderSent(Store, Now).file]}
            \cup {[file |-> "state", text |-> markTaskNotificationSent(Store, id, Now).file] :
                      id \in TaskIds}
            \cup {[file |-> "settings", text |-> f] :
                      f \in updateSettings(settingsFile, [habitRemindersEnabled |-> FALSE])}
    IN  {c \in calls : c.text # FileOf(c.file)}

\* the three files after `text` has been put where the write of wr goes
Written(call, text) ==
    IF AtomicReplace(call.file)
    THEN [subs |-> subsFile, state |-> stateFile, settings |-> settingsFile,
          tmp |-> [tmp EXCEPT ![call.file] = text]]
    ELSE [subs |-> IF call.file = "subs" THEN text ELSE subsFile,
          state |-> IF call.file = "state" THEN text ELSE stateFile,
          settings |-> IF call.file = "settings" THEN text ELSE settingsFile,
          tmp |-> tmp]

SaveStepFrame ==
    /\ UNCHANGED <<tz, t0, horizon, elapsed, defaultTN, jobs, nUpdates, nRequests, nSubOps,
                   dayCalls, refire, taskCalls, faults, nTests>>
    /\ UNCHANGED <<funVars, browserVars>>

\* a handler calls a save function
BeginSave(call) ==
    /\ wr = Null
    /\ call \in SaveCalls
    /\ wr' = Some([file |-> call.file, text |-> call.text, pc |-> "open"])
    /\ ev' = [op |-> "save", file |-> call.file, pc |-> "begin"]
    /\ UNCHANGED <<subsFile, stateFile, settingsFile, tmp>>
    /\ SaveStepFrame

\* writeFileSync has opened and truncated its target
WriteTruncate ==
    /\ wr # Null
    /\ wr[1].pc = "open"
    /\ LET w == Written(wr[1], Torn)
       IN  /\ subsFile' = w.subs
           /\ stateFile' = w.state
           /\ settingsFile' = w.settings
           /\ tmp' = w.tmp
    /\ wr' = Some([wr[1] EXCEPT !.pc = "data"])
    /\ ev' = [op |-> "save", file |-> wr[1].file, pc |-> "open"]
    /\ SaveStepFrame

\* writeFileSync has written the whole text
WriteData ==
    /\ wr # Null
    /\ wr[1].pc = "data"
    /\ LET w == Written(wr[1], wr[1].text)
       IN  /\ subsFile' = w.subs
           /\ stateFile' = w.state
           /\ settingsFile' = w.settings
           /\ tmp' = w.tmp
    /\ wr' = IF AtomicReplace(wr[1].file) THEN Some([wr[1] EXCEPT !.pc = "rename"]) ELSE Null
    /\ ev' = [op |-> "save", file |-> wr[1].file, pc |-> "data"]
    /\ SaveStepFrame

\* renameSync(tempFile, FILE)
Rename ==
    /\ wr # Null
    /\ wr[1].pc = "rename"
    /\ subsFile' = IF wr[1].file = "subs" THEN tmp["subs"] ELSE subsFile
    /\ stateFile' = IF wr[1].file = "state" THEN tmp["state"] ELSE stateFile
    /\ settingsFile' = IF wr[1].file = "settings" THEN tmp["settings"] ELSE settingsFile
    /\ tmp' = [tmp EXCEPT ![wr[1].file] = Null]
    /\ wr' = Null
    /\ ev' = [op |-> "save", file |-> wr[1].file, pc |-> "rename"]
    /\ SaveStepFrame

InitCrash ==
    /\ tz = 0
    /\ t0 = StartUtc(tz, 9, 58)
    /\ horizon = 0
    /\ subsFile \in {Null, OneSubscription}
    /\ InitServer
    /\ fin = Null
    /\ fout = Null
    /\ InitBrowser

\* saves in steps, and the process stopping and starting again at any point
NextCrash ==
    \/ \E call \in SaveCalls : BeginSave(call)
    \/ WriteTruncate
    \/ WriteData
    \/ Rename
    \/ Restart

SpecCrash == InitCrash /\ [][NextCrash]_vars

(* --------------------------- the read track --------------------------- *)
\* the environment: a store is deleted, or its text is damaged
FileLost(name, text) ==
    /\ text \in {Null, Torn}
    /\ FileOf(name) # text
    /\ subsFile' = IF name = "subs" THEN text ELSE subsFile
    /\ stateFile' = IF name = "state" THEN text ELSE stateFile
    /\ settingsFile' = IF name = "settings" THEN text ELSE settingsFile
    /\ ev' = [op |-> "lost", file |-> name]
    /\ UNCHANGED <<tz, t0, horizon, elapsed, defaultTN, jobs, nUpdates, nRequests, nSubOps,
                   dayCalls, refire, taskCalls, faults, tmp, wr, nTests>>
    /\ UNCHANGED <<funVars, browserVars>>

\* a handler calls the three load functions; fout is what they return
ReadStores ==
    /\ fout' = Some([settings |-> loadSettings(settingsFile),
                     state |-> loadNotificationState(Store),
                     subs |-> loadSubscriptions(subsFile)])
    /\ ev' = [op |-> "read"]
    /\ UNCHANGED fin
    /\ UNCHANGED <<tz, t0, horizon, elapsed, settingsFile, stateFile, defaultTN, subsFile, jobs,
                   nUpdates, nRequests, nSubOps, dayCalls, refire, taskCalls, faults, tmp, wr,
                   nTests>>
    /\ UNCHANGED browserVars

InitReads ==
    /\ tz = 0
    /\ t0 = StartUtc(tz, 9, 58)
    /\ horizon = 0
    /\ subsFile \in {Null, OneSubscription}
    /\ InitServer
    /\ fin = Null
    /\ fout = Null
    /\ InitBrowser

\* requests that write the stores, the stores getting lost, and the load
\* functions
NextReads ==
    \/ \E tasks \in TaskLists(t0) : CheckTasks(tasks)
    \/ \E job \in jobs, status \in SendOutcomes : SendSettles(job, status)
    \/ PutSettings([habitRemindersEnabled |-> FALSE])
    \/ \E name \in Files, text \in {Null, Torn} : FileLost(name, text)
    \/ ReadStores

SpecReads == InitReads /\ [][NextReads]_vars

(* -------------------- requests with their validation ------------------ *)
\* A request body is a record of the fields it has.  A JSON value that may or
\* may not be an array is [array |-> TRUE, items |-> <<...>>] or
\* [array |-> FALSE].
\* !subscription || !subscription.endpoint
SubscribeRejects(body) == "endpoint" \notin DOMAIN body \/ body.endpoint = ""
\* !endpoint
UnsubscribeRejects(body) == "endpoint" \notin DOMAIN body \/ body.endpoint = ""
\* !title || !body
SendNotificationRejects(body) ==
    \/ "title" \notin DOMAIN body \/ body.title = ""
    \/ "body" \notin DOMAIN body \/ body.body = ""
\* !Array.isArray(tasks)
CheckTasksRejects(body) == "tasks" \notin DOMAIN body \/ ~body.tasks.array

\* return res.status(400).json({ error }): nothing else happens
Rejected(route, body) ==
    /\ ev' = [op |-> "rejected", route |-> route, body |-> body, status |-> 400]
    /\ UNCHANGED <<tz, t0, horizon, elapsed, settingsFile, stateFile, defaultTN, subsFile, jobs,
                   nUpdates, nRequests, nSubOps, dayCalls, refire, taskCalls, faults, tmp, wr,
                   nTests>>
    /\ UNCHANGED <<funVars, browserVars>>

SubscribeRequest(body) ==
    IF SubscribeRejects(body) THEN Rejected("subscribe", body) ELSE Subscribe(body.endpoint)
UnsubscribeRequest(body) ==
    IF UnsubscribeRejects(body) THEN Rejected("unsubscribe", body)
    ELSE Unsubscribe(body.endpoint)
SendNotificationRequest(body) ==
    IF SendNotificationRejects(body) THEN Rejected("send-notification", body)
    ELSE SendNotification
CheckTasksRequest(body) ==
    IF CheckTasksRejects(body) THEN Rejected("check-tasks", body)
    ELSE CheckTasks(body.tasks.items)

\* bodies the routes may receive
EndpointBodies ==
    {[endpoint |-> "e1"], [endpoint |-> "e3"], [endpoint |-> ""], [keys |-> "k"]}
NotificationBodies ==
    {[title |-> "Test", body |-> "Hello"], [title |-> "Test"], [body |-> "Hello"],
     [title |-> "", body |-> "Hello"], [title |-> "Test", body |-> ""]}
TaskBodies(t) ==
    {[tasks |-> [array |-> TRUE, items |-> <<TaskA(t)>>]],
     [tasks |-> [array |-> FALSE]],
     [title |-> "Test"]}

SettingsBodies ==
    {[reminderTime |-> <<CharCode(8), Colon, CharCode(0), CharCode(0)>>],
     [habitRemindersEnabled |-> FALSE]}

\* a delivery, a permanent failure and a network error
RequestOutcomes == {201, StatusGone, 0}

\* the server in the morning with two subscriptions
InitRequests ==
    /\ tz = 0
    /\ t0 = StartUtc(tz, 9, 58)
    /\ horizon = 0
    /\ subsFile = TwoSubscriptions
    /\ InitServer
    /\ fin = Null
    /\ fout = Null
    /\ InitBrowser

\* every route with valid and invalid bodies, and the sends
NextRequests ==
    \/ \E body \in EndpointBodies : SubscribeRequest(body)
    \/ \E body \in EndpointBodies : UnsubscribeRequest(body)
    \/ \E body \in NotificationBodies : SendNotificationRequest(body)
    \/ \E body \in TaskBodies(t0) : CheckTasksRequest(body)
    \/ \E updates \in SettingsBodies : PutSettings(updates)
    \/ \E job \in jobs, status \in RequestOutcomes : SendSettles(job, status)

SpecRequests == InitRequests /\ [][NextRequests]_vars

(* ------------------------ the periodic cleanup ------------------------ *)
MaxCleanupMinutes == 2
\* ages of the stored entries at the cleanup of 10:00
EntryAges == {0, SevenDays - 1, SevenDays, SevenDays + 1, 8 * MsPerDay}
\* the taskNotifications maps of the stored state: each task id absent or
\* marked at one of the ages
StoredEntries(t) ==
    UNION {[ids -> {t - age : age \in EntryAges}] : ids \in SUBSET TaskIds}

\* the server at 09:58 on a later day, with a state file of earlier runs
InitCleanup ==
    /\ tz = 0
    /\ t0 = StartUtc(tz, 9, 58) + 10 * MsPerDay
    /\ horizon = MaxCleanupMinutes
    /\ subsFile = Null
    /\ elapsed = 0
    /\ settingsFile = Null
    /\ \E entries \in StoredEntries(NowOf(2)),
          last \in {Null, Some(DateStr(t0) - 1)} :
           stateFile = Some([habitReminderLastSent |-> last,
                             taskNotifications |-> entries])
    /\ defaultTN = <<>>
    /\ jobs = {}
    /\ nUpdates = 0
    /\ nRequests = 0
    /\ nSubOps = 0
    /\ dayCalls = 0
    /\ refire = FALSE
    /\ taskCalls = [id \in TaskIds |-> 0]
    /\ ev = NoEvent
    /\ faults = {}
    /\ tmp = [f \in Files |-> Null]
    /\ wr = Null
    /\ nTests = 0
    /\ fin = stateFile
    /\ fout = Null
    /\ InitBrowser

NextCleanup == CronMinute

SpecCleanup == InitCleanup /\ [][NextCleanup]_vars

(* ------------------- the reminder on the following day ----------------- *)
\* minutes from 19:58 to 20:01 of the next day
MaxDayMinutes == 1443

\* the server two minutes before the default reminder time, one subscription
InitDays ==
    /\ tz \in TzOffsets
    /\ t0 = StartUtc(tz, 19, 58)
    /\ horizon = MaxDayMinutes
    /\ subsFile = OneSubscription
    /\ InitServer
    /\ fin = Null
    /\ fout = Null
    /\ InitBrowser

\* the cron jobs and the sends only; the push service answers every send
\* before the next minute begins
NextDays ==
    \/ jobs = {} /\ CronMinute
    \/ \E job \in jobs, status \in SendOutcomes : SendSettles(job, status)

SpecDays == InitDays /\ [][NextDays]_vars

(* ---------------------- restarts between dispatches ------------------- *)
MaxRestartMinutes == 3

\* the server two minutes before the default reminder time, one subscription
InitRestart ==
    /\ tz = 0
    /\ t0 = StartUtc(tz, 19, 58)
    /\ horizon = MaxRestartMinutes
    /\ subsFile = OneSubscription
    /\ InitServer
    /\ fin = Null
    /\ fout = Null
    /\ InitBrowser

\* the cron jobs, the due-soon requests, the sends and restarts
NextRestart ==
    \/ CronMinute
    \/ \E tasks \in TaskLists(t0) : CheckTasks(tasks)
    \/ \E job \in jobs, status \in SendOutcomes : SendSettles(job, status)
    \/ Restart

SpecRestart == InitRestart /\ [][NextRestart]_vars

(* ------------------- a push service that does not answer -------------- *)
\* webpush.sendNotification is awaited without a timeout: the promise of a
\* send to a service that never answers never settles
SilentEndpoints == {"e2"}

\* a send to a service that answers settles with one of the outcomes
SendAnswered ==
    \E job \in jobs, status \in SendOutcomes :
        /\ job.subs[job.i] \notin SilentEndpoints
        /\ SendSettles(job, status)

\* the server two minutes before the default reminder time, subscriptions
\* e1 and e2
InitSilent ==
    /\ tz = 0
    /\ t0 = StartUtc(tz, 19, 58)
    /\ horizon = MaxMinutes
    /\ subsFile = TwoSubscriptions
    /\ InitServer
    /\ fin = Null
    /\ fout = Null
    /\ InitBrowser

NextSilent ==
    \/ CronMinute
    \/ SendNotification
    \/ SendAnswered

\* every send to a service that answers is answered eventually
SpecSilent == InitSilent /\ [][NextSilent]_vars /\ WF_vars(SendAnswered)

(* --------------------- isWithinReminderWindow alone ------------------- *)
\* times of day around midnight and around the default reminder time
WindowTimes == {HHMM(h, m) : h \in {0, 19, 20, 23}, m \in {0, 1, 2, 58, 59}}

InitWindow ==
    /\ tz = 0
    /\ t0 = StartUtc(tz, 19, 58)
    /\ horizon = 0
    /\ subsFile = Null
    /\ InitServer
    /\ fin \in [current : WindowTimes, target : WindowTimes]
    /\ fout = Null
    /\ InitBrowser

\* the call of the cron callback: isWithinReminderWindow(currentTime, reminderTime)
ApplyReminderWindow ==
    /\ fout = Null
    /\ fout' = Some(isWithinReminderWindow(fin.current, fin.target))
    /\ UNCHANGED fin
    /\ UNCHANGED <<serverVars, browserVars>>

NextWindow == ApplyReminderWindow

SpecWindow == InitWindow /\ [][NextWindow]_vars

(* ---------------- due-soon requests and the task setting -------------- *)
\* PUT /settings bodies that switch task reminders off and on
TaskSettingBodies == {[taskRemindersEnabled |-> FALSE], [taskRemindersEnabled |-> TRUE]}

\* the server in the morning with two subscriptions
InitTaskSetting ==
    /\ tz = 0
    /\ t0 = StartUtc(tz, 9, 58)
    /\ horizon = 0
    /\ subsFile = TwoSubscriptions
    /\ InitServer
    /\ fin = Null
    /\ fout = Null
    /\ InitBrowser

NextTaskSetting ==
    \/ \E updates \in TaskSettingBodies : PutSettings(updates)
    \/ \E tasks \in TaskLists(t0) : CheckTasks(tasks)
    \/ \E job \in jobs, status \in SendOutcomes : SendSettles(job, status)

SpecTaskSetting == InitTaskSetting /\ [][NextTaskSetting]_vars

(* ------------------ unsubscribing during a dispatch ------------------- *)
\* outcomes that do not prune: a delivery, a server error, a network error
TransientOutcomes == {201, 500, 0}

\* the server in the morning with two subscriptions
InitLeaving ==
    /\ tz = 0
    /\ t0 = StartUtc(tz, 9, 58)
    /\ horizon = 0
    /\ subsFile = TwoSubscriptions
    /\ InitServer
    /\ fin = Null
    /\ fout = Null
    /\ InitBrowser

\* test dispatches and due-soon requests with their sends, and the registry
\* requests; no send reports the endpoint gone
NextLeaving ==
    \/ SendNotification
    \/ \E tasks \in TaskLists(t0) : CheckTasks(tasks)
    \/ \E job \in jobs, status \in TransientOutcomes : SendSettles(job, status)
    \/ \E endpoint \in Endpoints : Unsubscribe(endpoint)
    \/ \E endpoint \in Endpoints : Subscribe(endpoint)

SpecLeaving == InitLeaving /\ [][NextLeaving]_vars

(* --------------------- all the writers interleaved -------------------- *)
\* the server two minutes before the default reminder time, two
\* subscriptions, and task t2 marked seven days before the cleanup of 20:00
InitInterleave ==
    /\ tz = 0
    /\ t0 = StartUtc(tz, 19, 58) + 10 * MsPerDay
    /\ horizon = MaxTaskMinutes
    /\ subsFile = TwoSubscriptions
    /\ elapsed = 0
    /\ settingsFile = Null
    /\ stateFile = Some([habitReminderLastSent |-> Null,
                         taskNotifications |-> [id \in {"t2"} |-> NowOf(2) - SevenDays]])
    /\ defaultTN = <<>>
    /\ jobs = {}
    /\ nUpdates = 0
    /\ nRequests = 0
    /\ nSubOps = 0
    /\ dayCalls = 0
    /\ refire = FALSE
    /\ taskCalls = [id \in TaskIds |-> 0]
    /\ ev = NoEvent
    /\ faults = {}
    /\ tmp = [f \in Files |-> Null]
    /\ wr = Null
    /\ nTests = 0
    /\ fin = Null
    /\ fout = Null
    /\ InitBrowser

\* the cron jobs, the due-soon requests, the sends with their prunes and the
\* registry requests, in any order
NextInterleave ==
    \/ CronMinute
    \/ \E tasks \in TaskLists(t0) : CheckTasks(tasks)
    \/ \E job \in jobs, status \in SendOutcomes : SendSettles(job, status)
    \/ \E endpoint \in Endpoints : Subscribe(endpoint)
    \/ \E endpoint \in Endpoints : Unsubscribe(endpoint)

SpecInterleave == InitInterleave /\ [][NextInterleave]_vars

(* ---------------------- the due-soon test alone ----------------------- *)
\* due dates around the two ends of the window, relative to `now` (ms)
DueOffsets == {0 - 1000, 0 - 1, 0, 1, thirtyMinutes - 1, thirtyMinutes,
               thirtyMinutes + 1, thirtyMinutes + 1000}
Priorities == {"Low", "Medium", "High", "Critical"}
Statuses == {"Backlog", "Planned", "InProgress", "Completed"}
DueTasks(t) ==
    {Task("t1", p, st, d) : p \in Priorities, st \in Statuses,
                            d \in {Null} \cup {Some(t + o) : o \in DueOffsets}}

InitDue ==
    /\ tz = 0
    /\ t0 = StartUtc(tz, 9, 58)
    /\ horizon = 0
    /\ subsFile = Null
    /\ InitServer
    /\ fin \in [task : DueTasks(t0), now : {t0}]
    /\ fout = Null
    /\ InitBrowser

\* the test of the loop of POST /check-tasks on fin.task with now = fin.now
ApplyDueSoon ==
    /\ fout = Null
    /\ fout' = Some(DueSoonCandidate(fin.task, fin.now))
    /\ UNCHANGED fin
    /\ UNCHANGED <<serverVars, browserVars>>

NextDue == ApplyDueSoon

SpecDue == InitDue /\ [][NextDue]_vars

(* ----------------- the browser's filter and the server's ------------- *)
\* A due-date string is [local, ms]: local is TRUE for a date-time without
\* zone ("2026-01-09T18:30:00", what the task form stores), which new Date()
\* reads as wall-clock time of the host's zone, and FALSE for a string that
\* names the instant itself (a date alone, or a date-time ending in Z); ms is
\* the wall-clock time, or the instant.
\* new Date(s).getTime() on a host at zone offset z minutes
DateParse(s, z) == IF s.local THEN s.ms - z * MsPerMinute ELSE s.ms

DUE_WINDOW_MINUTES == 30
\* isDueSoon(dueDate) in a browser at zone offset z, at the instant now
isDueSoon(dueDate, now, z) ==
    LET diffMs == DateParse(dueDate, z) - now
    IN  diffMs > 0 /\ diffMs <= DUE_WINDOW_MINUTES * (1000 * 60)
\* the predicate of the filter of filterNotifiableTasks
filterNotifiableTasks(task, now, z) ==
    /\ task.priority = "High" \/ task.priority = "Critical"
    /\ task.status # "Completed"
    /\ task.dueDate # Null
    /\ isDueSoon(task.dueDate[1], now, z)

\* the tests of the loop of POST /check-tasks before the dedup lookup, on a
\* server at zone offset z: the due date is parsed there again
CheckTasksEligible(task, now, z) ==
    DueSoonCandidate([task EXCEPT !.dueDate = IF @ = Null THEN Null
                                              ELSE Some(DateParse(@[1], z))], now)

\* due-date strings around the two ends of the window
DueStrings(t) ==
    {[local |-> TRUE, ms |-> t + o + z * MsPerMinute] : o \in DueOffsets, z \in TzOffsets}
        \cup {[local |-> FALSE, ms |-> t + o] : o \in DueOffsets}
FilterTasks(t) ==
    {Task("t1", p, st, d) : p \in Priorities, st \in Statuses,
                            d \in {Null} \cup {Some(s) : s \in DueStrings(t)}}

\* a browser in one zone and the server in one zone
InitFilter ==
    /\ tz \in TzOffsets
    /\ t0 = StartUtc(tz, 9, 58)
    /\ horizon = 0
    /\ subsFile = Null
    /\ InitServer
    /\ fin \in [task : FilterTasks(t0), now : {t0}, browserTz : TzOffsets]
    /\ fout = Null
    /\ InitBrowser

\* the filter in the browser and the server's tests on the same task at the
\* same instant
ApplyFilter ==
    /\ fout = Null
    /\ fout' = Some([kept |-> filterNotifiableTasks(fin.task, fin.now, fin.browserTz),
                     eligible |-> CheckTasksEligible(fin.task, fin.now, tz)])
    /\ UNCHANGED fin
    /\ UNCHANGED <<serverVars, browserVars>>

NextFilter == ApplyFilter

SpecFilter == InitFilter /\ [][NextFilter]_vars

(* ---------------------- the polling hook in the browser --------------- *)
\* hook.isActive is isActiveRef.current, hook.intervalRef is intervalRef.current,
\* hook.intervals are the intervals the browser has scheduled, hook.timeouts
\* the initial-delay timeouts not yet fired, hook.inits the initPolling calls
\* suspended at `await getCurrentSubscription()`, hook.visible is
\* document.visibilityState === 'visible', hook.mounted says that the effect
\* has run and its cleanup has not; hook.stopped records that stopPolling was
\* the last call made by the page or the cleanup.
MaxStarts == 2
MaxMounts == 1

\* everything but ev and hook
hookFrame == <<tz, t0, horizon, elapsed, settingsFile, stateFile, defaultTN, subsFile, jobs,
               nUpdates, nRequests, nSubOps, dayCalls, refire, taskCalls, faults, tmp, wr,
               nTests, fin, fout, localStorage>>

\* what a step of the hook did; check: it called checkTasks()
HookEvent(step, check, h) ==
    [op |-> "hook", step |-> step, check |-> check, active |-> h.isActive,
     visible |-> h.visible, mounted |-> h.mounted, stopped |-> h.stopped]

\* startPolling(): nothing when active; else the flag, the timeout of the
\* initial check and the interval
startPolling(h) ==
    IF h.isActive THEN h
    ELSE [h EXCEPT !.isActive = TRUE,
                   !.timeouts = @ + 1,
                   !.nStarts = @ + 1,
                   !.intervalRef = Some(h.nStarts + 1),
                   !.intervals = @ \cup {h.nStarts + 1}]

\* stopPolling(): the flag, and clearInterval of the interval in the ref
stopPolling(h) ==
    [h EXCEPT !.isActive = FALSE,
              !.intervals = IF h.intervalRef = Null THEN @ ELSE @ \ {h.intervalRef[1]},
              !.intervalRef = Null]

\* the effect runs: initPolling() goes as far as its await when push is
\* supported and permitted, and the visibility listener is added
Mount(supported, granted) ==
    /\ ~hook.mounted
    /\ hook.nMounts < MaxMounts
    /\ hook' = [hook EXCEPT !.mounted = TRUE,
                            !.nMounts = @ + 1,
                            !.inits = @ + (IF supported /\ granted THEN 1 ELSE 0)]
    /\ ev' = HookEvent("mount", FALSE, hook)
    /\ UNCHANGED hookFrame

\* getCurrentSubscription() settles and initPolling goes on: startPolling()
\* when there is a subscription and the settings enable task reminders
InitPollingResumes(subscribed, enabled) ==
    /\ hook.inits > 0
    /\ LET h == [hook EXCEPT !.inits = @ - 1]
       IN  hook' = IF subscribed /\ enabled THEN startPolling(h) ELSE h
    /\ ev' = HookEvent("init", FALSE, hook)
    /\ UNCHANGED hookFrame

\* the page calls the startPolling it got from the hook
StartPolling ==
    /\ hook.mounted
    /\ hook.nStarts < MaxStarts
    /\ hook' = startPolling([hook EXCEPT !.stopped = FALSE])
    /\ ev' = HookEvent("start", FALSE, hook)
    /\ UNCHANGED hookFrame

\* the page calls the stopPolling it got from the hook
StopPolling ==
    /\ hook.mounted
    /\ hook' = [stopPolling(hook) EXCEPT !.stopped = TRUE]
    /\ ev' = HookEvent("stop", FALSE, hook)
    /\ UNCHANGED hookFrame

\* the cleanup of the effect: stopPolling() and the listener removed
Unmount ==
    /\ hook.mounted
    /\ hook' = [stopPolling(hook) EXCEPT !.stopped = TRUE, !.mounted = FALSE]
    /\ ev' = HookEvent("unmount", FALSE, hook)
    /\ UNCHANGED hookFrame

\* the callback of setTimeout(..., INITIAL_DELAY_MS)
TimeoutFires ==
    /\ hook.timeouts > 0
    /\ hook' = [hook EXCEPT !.timeouts = @ - 1]
    /\ ev' = HookEvent("timeout", hook.isActive, hook)
    /\ UNCHANGED hookFrame

\* the callback of setInterval(..., POLL_INTERVAL_MS)
IntervalFires(id) ==
    /\ id \in hook.intervals
    /\ ev' = HookEvent("interval", hook.isActive /\ hook.visible, hook)
    /\ UNCHANGED hook
    /\ UNCHANGED hookFrame

\* the user hides or shows the tab; the listener runs while it is registered
VisibilityChanges ==
    /\ hook' = [hook EXCEPT !.visible = ~@]
    /\ ev' = HookEvent("visibility", hook.mounted /\ hook'.visible /\ hook.isActive, hook')
    /\ UNCHANGED hookFrame

InitHook ==
    /\ tz = 0
    /\ t0 = StartUtc(tz, 9, 58)
    /\ horizon = 0
    /\ subsFile = Null
    /\ InitServer
    /\ fin = Null
    /\ fout = Null
    /\ InitBrowser

NextHook ==
    \/ \E supported, granted \in BOOLEAN : Mount(supported, granted)
    \/ \E subscribed, enabled \in BOOLEAN : InitPollingResumes(subscribed, enabled)
    \/ StartPolling
    \/ StopPolling
    \/ Unmount
    \/ TimeoutFires
    \/ \E id \in hook.intervals : IntervalFires(id)
    \/ VisibilityChanges

SpecHook == InitHook /\ [][NextHook]_vars

(* ------------------------ saveAppData in the browser ------------------ *)
\* A stored item is the length of its JSON text; two items of one key are
\* the same exactly when their lengths are.  window.localStorage.setItem
\* throws QuotaExceededError when the items would not fit the quota.
Quota == 7
\* the item of isStorageAvailable, and a default ([] , DEFAULT_SETTINGS, 1)
TestItem == 1
DefaultItem == 1

Fields == <<"habits", "tasks", "settings", "schemaVersion">>
KeyOf(field) ==
    CASE field = "habits" -> "habits"
      [] field = "tasks" -> "tasks"
      [] field = "settings" -> "app_settings"
      [] field = "schemaVersion" -> "schema_version"

RECURSIVE SumOver(_, _)
SumOver(store, keys) ==
    IF keys = {} THEN 0
    ELSE LET k == CHOOSE x \in keys : TRUE
         IN  (IF store[k] = Null THEN 0 ELSE store[k][1]) + SumOver(store, keys \ {k})
Used(store) == SumOver(store, DOMAIN store)

\* setItem(test, test) succeeds
isStorageAvailable(store) == Used(store) + TestItem <= Quota

\* getItem(key, defaultValue)
getItem(store, key) == IF store[key] = Null THEN DefaultItem ELSE store[key][1]
loadAppData(store) == [f \in {"habits", "tasks", "settings", "schemaVersion"} |->
                          getItem(store, KeyOf(f))]

\* setItem(key, value): the store afterwards, and whether it throws
setItemThrows(store, key, value) == Used([store EXCEPT ![key] = Some(value)]) > Quota
setItem(store, key, value) ==
    IF setItemThrows(store, key, value) THEN store ELSE [store EXCEPT ![key] = Some(value)]

\* the setItem calls for the fields of data that are defined, from Fields[i]
\* on, up to the first that throws
RECURSIVE WriteFields(_, _, _)
WriteFields(store, data, i) ==
    IF i > Len(Fields) THEN [store |-> store, thrown |-> FALSE]
    ELSE IF Fields[i] \notin DOMAIN data THEN WriteFields(store, data, i + 1)
    ELSE IF setItemThrows(store, KeyOf(Fields[i]), data[Fields[i]])
    THEN [store |-> store, thrown |-> TRUE]
    ELSE WriteFields(setItem(store, KeyOf(Fields[i]), data[Fields[i]]), data, i + 1)

\* the rollback: the four setItem calls with the backup, given up at the
\* first that throws
Rollback(store, backup) == WriteFields(store, backup, 1).store

\* saveAppData(data)
saveAppData(store, data) ==
    IF ~isStorageAvailable(store) THEN [store |-> store, thrown |-> TRUE]
    ELSE LET backup == loadAppData(store)
             r == WriteFields(store, data, 1)
         IN  IF r.thrown
             THEN [store |-> Rollback(r.store, backup), thrown |-> TRUE]
             ELSE r

\* what is stored before the call, and the data of the call
StoredItems == {Null, Some(1), Some(3)}
NewItems == {1, 3, 5}
AppDatas ==
    {data \in UNION {[fs -> NewItems] :
                        fs \in SUBSET {"habits", "tasks", "settings", "schemaVersion"}} :
        "schemaVersion" \in DOMAIN data => data["schemaVersion"] = 1}

InitSave ==
    /\ tz = 0
    /\ t0 = StartUtc(tz, 9, 58)
    /\ horizon = 0
    /\ subsFile = Null
    /\ InitServer
    /\ hook = UnmountedHook
    /\ localStorage \in {st \in [STORAGE_KEYS -> StoredItems] :
                            st["schema_version"] # Some(3) /\ Used(st) <= Quota}
    /\ fin \in {[data |-> data, before |-> localStorage] : data \in AppDatas}
    /\ fout = Null

\* a component calls saveAppData(fin.data)
SaveAppData ==
    /\ fout = Null
    /\ localStorage' = saveAppData(localStorage, fin.data).store
    /\ fout' = Some([thrown |-> saveAppData(localStorage, fin.data).thrown])
    /\ UNCHANGED <<serverVars, hook, fin>>

NextSave == SaveAppData

SpecSave == InitSave /\ [][NextSave]_vars

(* ===================================================================== *)
(* Properties                                                            *)
(* ===================================================================== *)

(* ------------- reference notions, independent of the code ------------- *)
\* a well-formed 24-hour "HH:MM" and its minute of the day
WellFormedTime(s) ==
    /\ Len(s) = 5
    /\ s[3] = Colon
    /\ \A i \in {1, 2, 4, 5} : s[i] - 48 \in 0..9
    /\ 10 * (s[1] - 48) + (s[2] - 48) < 24
    /\ 10 * (s[4] - 48) + (s[5] - 48) < 60
MinuteOfDay(s) == 600 * (s[1] - 48) + 60 * (s[2] - 48) + 10 * (s[4] - 48) + (s[5] - 48)

\* cur, start, end: minutes of the day
QuietRef(cur, start, end) ==
    IF start <= end THEN start <= cur /\ cur < end
    ELSE cur >= start \/ cur < end

\* the dedup state and the registry as a reader of the files sees them
LastSent == loadNotificationState(Store).habitReminderLastSent
TaskEntries == loadNotificationState(Store).taskNotifications
HasEntry(id) == stateFile # Null /\ id \in DOMAIN stateFile[1].taskNotifications
Registered == {getAllSubscriptions(subsFile)[i].endpoint :
                   i \in 1..Len(getAllSubscriptions(subsFile))}
HabitJobs == {j \in jobs : j.kind = "habit"}
TaskJobs == {j \in jobs : j.kind = "task"}

\* this step is a cron minute / the return of a habit dispatch
IsTick == elapsed' = elapsed + 1
HabitReturns == ev'.op = "send" /\ ev'.kind = "habit" /\ ev'.returned /\ jobs' # jobs

\* The conditions of the daily track at the instant t of a tick, read from the
\* stored settings; reminderTime is the time the callback compares with: the
\* stored one, or 20:00 when none is stored
ReminderTimeInUse ==
    IF loadSettings(settingsFile).reminderTime = EmptyStr
    THEN HHMM(20, 0) ELSE loadSettings(settingsFile).reminderTime
InWindowOf(rt, t) ==
    /\ WellFormedTime(rt)
    /\ Abs(LocalMinuteOfDay(t, tz) - MinuteOfDay(rt)) <= 1
OutsideQuietHours(t) ==
    LET settings == loadSettings(settingsFile)
    IN  \/ ~settings.quietHoursEnabled
        \/ ~QuietRef(LocalMinuteOfDay(t, tz), MinuteOfDay(settings.quietHoursStart),
                     MinuteOfDay(settings.quietHoursEnd))
EligibleButDedup(rt, t) ==
    /\ loadSettings(settingsFile).habitRemindersEnabled
    /\ InWindowOf(rt, t)
    /\ OutsideQuietHours(t)

(* C1: within one calendar day in which reminderTime is not changed, the   *)
(* habit-reminder payload is dispatched at most once, whatever the ticks.  *)
C1_AtMostOncePerDay == dayCalls <= 1

(* C4: no two evaluations of the daily-reminder tick are in progress at    *)
(* the same time.                                                          *)
C4_NoOverlappingTicks == Cardinality(HabitJobs) <= 1

(* C5: updateSettings with a reminderTime that is present and differs from *)
(* the current one leaves habitReminderLastSent = null in the persisted    *)
(* state; otherwise it leaves habitReminderLastSent and taskNotifications  *)
(* unchanged.                                                              *)
C5_ResetOnReminderTimeChange ==
    [][(ev'.op = "putSettings" /\ nUpdates' = nUpdates + 1 /\ ev'.status = 200) =>
          IF /\ "reminderTime" \in DOMAIN ev'.updates
             /\ ev'.updates.reminderTime # loadSettings(settingsFile).reminderTime
          THEN LastSent' = Null
          ELSE LastSent' = LastSent /\ TaskEntries' = TaskEntries]_vars

(* C6: after the habit reminder has been sent today and reminderTime has   *)
(* then been changed to a different time, the next tick inside the +-1     *)
(* minute window of the new time (reminders enabled, outside quiet hours,  *)
(* a subscription registered) dispatches the reminder again, however the   *)
(* update interleaves with a tick whose dispatch is in progress.           *)
C6_RefiresAfterChange ==
    [][(IsTick /\ refire
          /\ EligibleButDedup(loadSettings(settingsFile).reminderTime, NowOf(elapsed + 1))
          /\ Registered # {})
        => ev'.fired]_vars

C8_MarkOnlyAfterDispatch ==
    [][(LastSent' # LastSent /\ LastSent' # Null) =>
          \E j \in HabitJobs :
              /\ j \notin jobs'
              /\ j.i = Len(j.subs)
              /\ j.success + j.failed = Len(j.subs) - 1
              /\ ev'.op = "send" /\ ev'.kind = "habit" /\ ev'.n = j.n /\ ev'.returned
              /\ ev'.success + ev'.failed = Len(j.subs)]_vars
C8_MarkedAfterTwoSends ==
    /\ ev.op = "send" /\ ev.kind = "habit" /\ ev.returned
    /\ ev.total = 2
    /\ LastSent = Some(DateStr(Now))

(* C9: an otherwise eligible tick that finds no subscription leaves the    *)
(* dedup state unchanged; every eligible tick that finds a subscription    *)
(* dispatches, and records today's date when its dispatch has returned,    *)
(* also when sends have failed.                                            *)
C9_OnlyEmptyRegistrySkipsMark ==
    [][/\ (/\ IsTick
           /\ EligibleButDedup(ReminderTimeInUse, NowOf(elapsed + 1))
           /\ LastSent # Some(DateStr(NowOf(elapsed + 1))))
          => IF Registered = {}
             THEN /\ ~ev'.fired
                  /\ LastSent' = LastSent
                  /\ TaskEntries' = TaskEntries
             ELSE ev'.fired
       /\ HabitReturns => LastSent' = Some(DateStr(Now))
      ]_vars
C9_MarkedThoughAllSendsFailed ==
    /\ ev.op = "send" /\ ev.kind = "habit" /\ ev.returned
    /\ ev.success = 0 /\ ev.failed = 2
    /\ LastSent = Some(DateStr(Now))

(* C2: a /check-tasks request dispatches an eligible task whose id has no   *)
(* entry, counts it in sent and records taskNotifications[id]; while the   *)
(* entry is there no request dispatches or counts that id again.           *)
EligibleRef(task, t) ==
    /\ task.priority \in {"High", "Critical"}
    /\ task.status # "Completed"
    /\ task.dueDate # Null
    /\ 0 < task.dueDate[1] - t
    /\ task.dueDate[1] - t <= 30 * 60 * 1000
Unsent(task, t) == EligibleRef(task, t) /\ ~HasEntry(task.id)
C2_Answer ==
    (ev.op = "checkTasks" /\ ev.responded) =>
        /\ ev.sent = Len(ev.called)
        /\ \A i \in DOMAIN ev.called : HasEntry(ev.called[i])
        /\ \A i \in DOMAIN ev.tasks :
               EligibleRef(ev.tasks[i], ev.nowAt) => HasEntry(ev.tasks[i].id)
C2_Step ==
    /\ \A id \in TaskIds :
           /\ HasEntry(id) => taskCalls'[id] = taskCalls[id]
           /\ taskCalls'[id] <= taskCalls[id] + 1
    /\ (ev'.op = "checkTasks" /\ nRequests' = nRequests + 1) =>
           /\ \A i \in DOMAIN ev'.tasks :
                  (/\ Unsent(ev'.tasks[i], Now)
                   /\ \A k \in 1..(i - 1) : ~Unsent(ev'.tasks[k], Now))
                  => /\ taskCalls'[ev'.tasks[i].id] = taskCalls[ev'.tasks[i].id] + 1
                     /\ ev'.tasks[i].id \in {ev'.called[c] : c \in DOMAIN ev'.called}
           /\ \A c \in DOMAIN ev'.called :
                  \E i \in DOMAIN ev'.tasks :
                      ev'.tasks[i].id = ev'.called[c] /\ Unsent(ev'.tasks[i], Now)
C2_TaskDedup == []C2_Answer /\ [][C2_Step]_vars
C2_SecondRequestSendsNothing ==
    /\ ev.op = "checkTasks" /\ ev.n = 2 /\ ev.responded /\ ev.sent = 0
    /\ ev.tasks = <<TaskA(t0)>>
    /\ EligibleRef(TaskA(t0), ev.nowAt)
    /\ taskCalls["t1"] = 1
    /\ HasEntry("t1")
    /\ Registered # {}
    /\ jobs = {}

(* C3: when two /check-tasks requests containing the same eligible task id *)
(* are in progress at the same time, the payload for that id is dispatched *)
(* only once in total.                                                     *)
C3_OneDispatchWhenOverlapping ==
    \A j1, j2 \in TaskJobs :
        j1 # j2 => j1.tasks[j1.k].id # j2.tasks[j2.k].id

(* C10: for well-formed HH:MM values isInQuietHours(current, start, end)   *)
(* is start <= current < end when start <= end, and current >= start or    *)
(* current < end when start > end, on minutes of the day; with 22:00-08:00 *)
(* 23:00 and 02:00 are inside, 09:00 and 21:59 outside.                    *)
C10_QuietHoursMatchReference ==
    fout # Null =>
        /\ WellFormedTime(fin.current) /\ WellFormedTime(fin.start) /\ WellFormedTime(fin.end)
        /\ fout[1] = QuietRef(MinuteOfDay(fin.current), MinuteOfDay(fin.start),
                              MinuteOfDay(fin.end))
        /\ (fin.start = HHMM(22, 0) /\ fin.end = HHMM(8, 0)) =>
               /\ fin.current \in {HHMM(23, 0), HHMM(2, 0)} => fout[1] = TRUE
               /\ fin.current \in {HHMM(9, 0), HHMM(21, 59)} => fout[1] = FALSE
C10_OvernightInside ==
    /\ fin # Null
    /\ fin.start = HHMM(22, 0) /\ fin.end = HHMM(8, 0) /\ fin.current = HHMM(2, 0)
    /\ fout = Some(TRUE)

(* C11: a task is a dispatch candidate of the due-soon check if and only   *)
(* if its priority is High or Critical, its status is not Completed, a due *)
(* timestamp is present and 0 < due - now <= 30 minutes: due in exactly 30 *)
(* minutes is a candidate, due in 30 minutes plus one second is not, due   *)
(* now or in the past is not.                                              *)
C11_DueSoonCandidateIff ==
    fout # Null =>
        /\ fout[1] = EligibleRef(fin.task, fin.now)
        /\ (/\ fin.task.priority \in {"High", "Critical"}
            /\ fin.task.status # "Completed"
            /\ fin.task.dueDate # Null) =>
               /\ fin.task.dueDate[1] = fin.now + 30 * 60 * 1000 => fout[1] = TRUE
               /\ fin.task.dueDate[1] = fin.now + 30 * 60 * 1000 + 1000 => fout[1] = FALSE
               /\ fin.task.dueDate[1] <= fin.now => fout[1] = FALSE
C11_DueInExactlyThirtyMinutes ==
    /\ fin # Null
    /\ fin.task.priority = "Critical" /\ fin.task.status = "InProgress"
    /\ fin.task.dueDate = Some(fin.now + 30 * 60 * 1000)
    /\ fout = Some(TRUE)

\* the stored subscription list, its entries for one endpoint, the list without
\* them, and the steps that are registry requests or sends
StoredSubs == loadSubscriptions(subsFile)
EntriesOf(subs, endpoint) == {i \in 1..Len(subs) : subs[i].endpoint = endpoint}
RECURSIVE Without(_, _)
Without(subs, endpoint) ==
    IF subs = <<>> THEN <<>>
    ELSE IF Head(subs).endpoint = endpoint THEN Without(Tail(subs), endpoint)
    ELSE <<Head(subs)>> \o Without(Tail(subs), endpoint)
IsSubscribe == ev'.op = "subscribe" /\ nSubOps' = nSubOps + 1
IsSend == ev'.op = "send" /\ jobs' # jobs
PermanentFailure(status) == status \in {404, 410}
\* the dispatch call whose send this step settles
SettledJobs == {j \in jobs : j.kind = ev'.kind /\ j.n = ev'.n /\ j.subs[j.i] = ev'.endpoint}

(* C12: add with an endpoint that is already registered returns false and  *)
(* leaves the stored subscriptions unchanged (same entries, same createdAt *)
(* values): adding an endpoint twice yields exactly one entry, and POST    *)
(* /subscribe answers 201 the first time and 200 the second.               *)
C12_AddIsIdempotent ==
    [][IsSubscribe =>
          /\ IF EntriesOf(StoredSubs, ev'.endpoint) # {}
             THEN ev'.status = 200 /\ subsFile' = subsFile
             ELSE /\ ev'.status = 201
                  /\ StoredSubs' = Append(StoredSubs, [endpoint |-> ev'.endpoint,
                                                       createdAt |-> Now])
          /\ Cardinality(EntriesOf(StoredSubs', ev'.endpoint)) = 1]_vars
C12_SecondAddAnswers200 ==
    /\ ev.op = "subscribe" /\ ev.status = 200 /\ ev.endpoint = "e1"
    /\ nSubOps = 2
    /\ elapsed = 1
    /\ StoredSubs = <<[endpoint |-> "e1", createdAt |-> t0]>>

(* C13: from an empty registry, after any sequence and interleaving of     *)
(* subscribe, unsubscribe, dispatch (with prunes) and restarts, no two     *)
(* entries of the registry have the same endpoint.                         *)
C13_EndpointsUnique ==
    \A i, k \in 1..Len(StoredSubs) :
        i # k => StoredSubs[i].endpoint # StoredSubs[k].endpoint
C13_TwoEntriesAfterReadd ==
    /\ ev.op = "subscribe" /\ ev.status = 201 /\ ev.endpoint = "e1"
    /\ nSubOps = 3
    /\ nTests = 1
    /\ jobs = {}
    /\ Len(StoredSubs) = 2
    /\ StoredSubs[1].endpoint = "e2" /\ StoredSubs[2].endpoint = "e1"
    /\ StoredSubs[2].createdAt > StoredSubs[1].createdAt

(* C14: when a send of a dispatch fails with status 410 or 404, that       *)
(* subscription is absent from the registry afterwards, and every other    *)
(* subscription, and every subscription whose send succeeded or failed     *)
(* with another status, is still there: one of three returning 410 leaves  *)
(* exactly the other two.                                                  *)
C14_PruneOnPermanentFailure ==
    [][IsSend =>
          IF PermanentFailure(ev'.status)
          THEN /\ EntriesOf(StoredSubs', ev'.endpoint) = {}
               /\ StoredSubs' = Without(StoredSubs, ev'.endpoint)
          ELSE subsFile' = subsFile]_vars
C14_OneOfThreeGone ==
    /\ ev.op = "send" /\ ev.status = 410 /\ ev.endpoint = "e2"
    /\ ev.total = 3 /\ ev.returned /\ ev.success = 2
    /\ Len(StoredSubs) = 2
    /\ StoredSubs[1].endpoint = "e1" /\ StoredSubs[2].endpoint = "e3"

(* C15: a send that fails with anything other than status 404 or 410       *)
(* (network error, 5xx, no status) is counted as a failure, is not retried *)
(* within the same dispatch call, and leaves the registry unchanged.       *)
C15_TransientFailureKept ==
    [][(IsSend /\ ev'.status # 201 /\ ~PermanentFailure(ev'.status)) =>
          /\ subsFile' = subsFile
          /\ \E j \in SettledJobs :
                 /\ ev'.failed = j.failed + 1
                 /\ ev'.success = j.success
                 /\ j \notin jobs'
                 /\ IF j.i < Len(j.subs)
                    THEN /\ ~ev'.returned
                         /\ jobs' = (jobs \ {j}) \cup
                                {[j EXCEPT !.i = j.i + 1, !.failed = j.failed + 1]}
                    ELSE /\ ev'.returned
                         /\ jobs' = jobs \ {j}]_vars
C15_NetworkErrorCounted ==
    /\ ev.op = "send" /\ ev.status = 0 /\ ev.endpoint = "e1"
    /\ ~ev.returned
    /\ ev.failed = 1
    /\ "e1" \in Registered
    /\ \E j \in jobs : j.kind = ev.kind /\ j.n = ev.n /\ j.i = 2 /\ j.failed = 1

\* the dispatch calls that this step ends: in progress before, gone after
EndedJobs == {j \in jobs : \A k \in jobs' : k.kind # j.kind \/ k.n # j.n}

(* C16: within one dispatch call delivery is attempted on every            *)
(* subscription that was in the registry when the call started: no failure *)
(* of one endpoint's send, a permanent failure whose prune cannot be       *)
(* persisted included, stops the attempts on the remaining subscriptions.  *)
C16_EveryEndpointAttempted ==
    [][IsSend => \A j \in EndedJobs : j.i = Len(j.subs)]_vars

(* C17: every dispatch call makes exactly one send attempt per             *)
(* subscription present at its start and returns counts with               *)
(* success + failed = total = the number of those subscriptions.           *)
C17_CountsCoverSnapshot ==
    [][IsSend =>
          /\ \E j \in SettledJobs :
                 /\ ev'.success + ev'.failed = j.i
                 /\ ev'.total = Len(j.subs)
          /\ \A j \in EndedJobs :
                 /\ ev'.returned
                 /\ ev'.kind = j.kind /\ ev'.n = j.n
                 /\ ev'.success + ev'.failed = ev'.total
                 /\ ev'.total = Len(j.subs)]_vars

(* C18: a failure to persist the dedup state is reported to the caller:    *)
(* when the write of the state record fails, the operation that requested  *)
(* it (here the mark of the habit reminder and the reset of                *)
(* updateSettings) ends in failure instead of completing as if saved.      *)
C18_StateWriteFailureReported ==
    [][("state" \in faults) =>
          /\ (IsSend /\ ev'.kind = "habit" /\ EndedJobs # {})
                 => ev'.thrown
          /\ (/\ ev'.op = "putSettings" /\ nUpdates' = nUpdates + 1
              /\ ev'.status # 400
              /\ "reminderTime" \in DOMAIN ev'.updates
              /\ ev'.updates.reminderTime \notin {EmptyStr, loadSettings(settingsFile).reminderTime})
                 => ev'.status = 500]_vars

(* C19: when the persisting write fails inside add, remove or              *)
(* updateSettings, the caller receives a failure and the durable           *)
(* subscriptions, settings and dedup state are exactly as before the call. *)
C19_FailedWriteKeepsNothing ==
    [][(\/ /\ IsSubscribe /\ "subs" \in faults
            /\ EntriesOf(StoredSubs, ev'.endpoint) = {}
        \/ /\ ev'.op = "unsubscribe" /\ nSubOps' = nSubOps + 1 /\ "subs" \in faults
            /\ EntriesOf(StoredSubs, ev'.endpoint) # {}
        \/ /\ ev'.op = "putSettings" /\ nUpdates' = nUpdates + 1 /\ "settings" \in faults
            /\ ev'.status # 400)
       => /\ ev'.status = 500
          /\ subsFile' = subsFile
          /\ settingsFile' = settingsFile
          /\ LastSent' = LastSent
          /\ TaskEntries' = TaskEntries]_vars

(* C20: if the process stops at any step of a write of the dedup state or  *)
(* of the subscriptions, the record read after the restart is the complete *)
(* value from before the write or the complete new value, never a          *)
(* partially written record.                                               *)
C20_Readable == subsFile # Torn /\ stateFile # Torn
C20_OldOrNew ==
    /\ subsFile' # subsFile =>
           wr # Null /\ wr[1].file = "subs" /\ subsFile' = wr[1].text
    /\ stateFile' # stateFile =>
           wr # Null /\ wr[1].file = "state" /\ stateFile' = wr[1].text
C20_CrashConsistentStores == []C20_Readable /\ [][C20_OldOrNew]_vars
C20_StoppedBeforeRename ==
    /\ ev.op = "restart"
    /\ wr = Null
    /\ tmp["subs"] = Some(<<[endpoint |-> "e1", createdAt |-> 0],
                            [endpoint |-> "e2", createdAt |-> t0]>>)
    /\ tmp["state"] = Torn
    /\ subsFile = OneSubscription
    /\ stateFile = Null

(* C21: reads never fail the caller: when the stored record is missing or  *)
(* unparsable, loadSettings returns the documented defaults (reminderTime  *)
(* 20:00, both reminder kinds enabled, quiet hours disabled), loadState    *)
(* returns habitReminderLastSent = null with an empty taskNotifications    *)
(* map, and the subscription list is empty.                                *)
C21_DefaultsWhenUnreadable ==
    (ev.op = "read" /\ fout # Null) =>
        /\ settingsFile \in {Null, Torn} =>
               /\ fout[1].settings.reminderTime = HHMM(20, 0)
               /\ fout[1].settings.habitRemindersEnabled = TRUE
               /\ fout[1].settings.taskRemindersEnabled = TRUE
               /\ fout[1].settings.quietHoursEnabled = FALSE
        /\ stateFile \in {Null, Torn} =>
               /\ fout[1].state.habitReminderLastSent = Null
               /\ DOMAIN fout[1].state.taskNotifications = {}
        /\ subsFile \in {Null, Torn} => fout[1].subs = <<>>

(* C22: after any sequence of PUT /settings requests, accepted or          *)
(* rejected, the stored reminderTime, quietHoursStart and quietHoursEnd    *)
(* are each a well-formed 24-hour HH:MM string.                            *)
C22_StoredTimesWellFormed ==
    /\ WellFormedTime(loadSettings(settingsFile).reminderTime)
    /\ WellFormedTime(loadSettings(settingsFile).quietHoursStart)
    /\ WellFormedTime(loadSettings(settingsFile).quietHoursEnd)

(* C23: a request rejected for invalid input (PUT /settings with a         *)
(* malformed reminderTime, POST /subscribe or /unsubscribe without          *)
(* endpoint, POST /check-tasks whose tasks is not an array, POST            *)
(* /send-notification without title or body) is answered 400, starts no    *)
(* dispatch and leaves settings, dedup state and registry unchanged; a      *)
(* request that is handled has the fields its route requires.               *)
MissingField(body, field) == field \notin DOMAIN body \/ body[field] = ""
InvalidBody(route, body) ==
    CASE route = "subscribe" -> MissingField(body, "endpoint")
      [] route = "unsubscribe" -> MissingField(body, "endpoint")
      [] route = "send-notification" ->
             MissingField(body, "title") \/ MissingField(body, "body")
      [] route = "check-tasks" -> "tasks" \notin DOMAIN body \/ ~body.tasks.array
MalformedTime(updates) ==
    /\ "reminderTime" \in DOMAIN updates
    /\ updates.reminderTime # EmptyStr
    /\ ~WellFormedTime(updates.reminderTime)
IsPutSettings == ev'.op = "putSettings" /\ nUpdates' = nUpdates + 1
IsRejected == ev'.op = "rejected" \/ (IsPutSettings /\ ev'.status = 400)
IsTestSend == ev'.op = "sendNotification" /\ nTests' = nTests + 1
C24_TestSendFrame ==
    [][/\ IsTestSend =>
             /\ ev'.total = Cardinality(Registered)
             /\ IF Registered = {} THEN jobs' = jobs /\ ev'.responded
                ELSE \E j \in jobs' \ jobs :
                         /\ jobs' = jobs \cup {j}
                         /\ j.kind = "test"
                         /\ Len(j.subs) = Cardinality(Registered)
                         /\ {j.subs[i] : i \in 1..Len(j.subs)} = Registered
             /\ UNCHANGED <<settingsFile, stateFile, defaultTN, subsFile>>
       /\ (IsSend /\ ev'.kind = "test") =>
             /\ UNCHANGED <<settingsFile, stateFile, defaultTN>>
             /\ subsFile' # subsFile =>
                    /\ PermanentFailure(ev'.status)
                    /\ StoredSubs' = Without(StoredSubs, ev'.endpoint)]_vars
\* a test dispatch to both subscribers starts although habit reminders are
\* disabled and the task it would announce is already marked
C24_TestSendDespiteSettings ==
    /\ ev.op = "sendNotification"
    /\ ev.total = 2
    /\ ~ev.responded
    /\ ~loadSettings(settingsFile).habitRemindersEnabled
    /\ HasEntry("t1")

(* C25: the periodic cleanup removes exactly the taskNotifications         *)
(* entries whose timestamp is 7 days old or older at the time of the        *)
(* cleanup, keeps every younger entry with its timestamp unchanged, and     *)
(* leaves habitReminderLastSent unchanged.                                  *)
IsCleanup == IsTick /\ LocalMinuteOfDay(Now', tz) % 5 = 0
Younger(entries, t) == {id \in DOMAIN entries : t - entries[id] < SevenDays}
C27_NextDayFirstEligibleTickFires ==
    [][(/\ IsTick
        /\ LocalDay(Now', tz) > LocalDay(t0, tz)
        /\ LocalDay(Now', tz) = LocalDay(Now, tz)
        /\ dayCalls = 0
        /\ jobs = {}
        /\ LastSent # Null
        /\ EligibleButDedup(ReminderTimeInUse, Now')
        /\ Registered # {})
          => ev'.fired]_vars

(* C28: dedup bookkeeping survives a process restart: a restart keeps      *)
(* habitReminderLastSent and every taskNotifications entry that has been   *)
(* recorded, and the ticks and /check-tasks requests after it do not       *)
(* dispatch the daily reminder of a recorded day or a recorded task id      *)
(* again.                                                                   *)
IsRestart == ev'.op = "restart"
C28_DedupSurvivesRestart ==
    [][/\ IsRestart =>
             /\ LastSent' = LastSent
             /\ TaskEntries' = TaskEntries
       /\ (IsTick /\ LastSent = Some(DateStr(Now'))) => ~ev'.fired /\ jobs' = jobs
       /\ \A id \in DOMAIN TaskEntries : taskCalls'[id] = taskCalls[id]]_vars
\* the process restarts at 19:59 with today's date and task t1 recorded and
\* the ticks of 20:00 and 20:01 still to come
C28_RestartWithRecords ==
    /\ ev.op = "restart"
    /\ TimeStr(Now, tz) = HHMM(19, 59)
    /\ LastSent = Some(DateStr(Now))
    /\ HasEntry("t1")
    /\ taskCalls["t1"] = 1
    /\ nRequests < MaxRequests

(* C29: remove(endpoint) returns true and deletes exactly the entry with   *)
(* that endpoint when it is registered, leaving every other entry          *)
(* unchanged; when no entry has that endpoint it returns false and does    *)
(* not write the registry (POST /unsubscribe answers 200 and 404).         *)
IsUnsubscribe == ev'.op = "unsubscribe" /\ nSubOps' = nSubOps + 1
C29_RemoveExactlyThatEntry ==
    [][IsUnsubscribe =>
          IF EntriesOf(StoredSubs, ev'.endpoint) # {}
          THEN /\ ev'.status = 200
               /\ StoredSubs' = Without(StoredSubs, ev'.endpoint)
               /\ Len(StoredSubs') = Len(StoredSubs) - 1
          ELSE /\ ev'.status = 404
               /\ subsFile' = subsFile]_vars
\* the second of three entries is removed and the other two stay in order
C29_MiddleEntryRemoved ==
    /\ ev.op = "unsubscribe" /\ ev.status = 200 /\ ev.endpoint = "e2"
    /\ Len(StoredSubs) = 2
    /\ StoredSubs[1].endpoint = "e1" /\ StoredSubs[2].endpoint = "e3"
    /\ StoredSubs[2].createdAt > StoredSubs[1].createdAt

(* C30: every dispatch call eventually returns: a send to a push endpoint  *)
(* that does not answer within a bounded time is counted as a failure and  *)
(* the attempts on the remaining subscriptions complete.                   *)
C30_EveryDispatchReturns == (jobs # {}) ~> (jobs = {})

(* C31: for all well-formed current times and reminder times,              *)
(* isWithinReminderWindow is true exactly when the two clock times are at   *)
(* most one minute apart on the 24-hour clock, where 23:59 and 00:00 count  *)
(* as one minute apart.                                                     *)
ClockDistance(a, b) ==
    LET d == Abs(MinuteOfDay(a) - MinuteOfDay(b))
    IN  IF d <= MinutesPerDay - d THEN d ELSE MinutesPerDay - d
C31_WindowOnTheClock ==
    (fout # Null /\ WellFormedTime(fin.current) /\ WellFormedTime(fin.target)) =>
        fout[1] = (ClockDistance(fin.current, fin.target) <= 1)

(* C32: while the stored setting taskRemindersEnabled is false, no task    *)
(* due-soon payload is dispatched by POST /check-tasks and no task id is    *)
(* recorded in taskNotifications, whatever task list is submitted (checked  *)
(* from the states in which no dispatch call is already in flight).         *)
C32_NoTaskDispatchWhenDisabled ==
    [][(~loadSettings(settingsFile).taskRemindersEnabled /\ jobs = {}) =>
          /\ taskCalls' = taskCalls
          /\ TaskEntries' = TaskEntries]_vars

(* C33: a task id is recorded in taskNotifications and counted in sent     *)
(* only if its payload was attempted on at least one subscription: with an  *)
(* empty registry POST /check-tasks records nothing and returns sent 0.     *)
IsCheckTasks == ev'.op = "checkTasks" /\ nRequests' = nRequests + 1
C33_EmptyRegistryRecordsNothing ==
    [][(IsCheckTasks /\ Registered = {}) =>
          /\ TaskEntries' = TaskEntries
          /\ ev'.sent = 0]_vars

(* C34: once POST /unsubscribe has answered 200 for an endpoint, no        *)
(* further send attempt is made to that endpoint until it subscribes       *)
(* again, also by a dispatch call that was in progress: every send that    *)
(* is issued goes to an endpoint that is registered at that moment.        *)
C34_NoSendAfterUnsubscribe ==
    [][\A j \in jobs' \ jobs : j.subs[j.i] \in Registered']_vars

(* C35: no update of the dedup state or of the registry is lost under     *)
(* interleaving: when a cron tick, a cleanup run, several /check-tasks      *)
(* requests and subscribe/unsubscribe/prune operations overlap in any       *)
(* order, every step changes the stored records by its own update only, so  *)
(* every mark, purge, add and removal that completed is still reflected.    *)
C35_NoLostUpdate ==
    [][/\ \/ LastSent' = LastSent
          \/ HabitReturns /\ LastSent' = Some(DateStr(Now))
       /\ \A id \in DOMAIN TaskEntries :
              \/ id \in DOMAIN TaskEntries' /\ TaskEntries'[id] >= TaskEntries[id]
              \/ IsCleanup /\ Now' - TaskEntries[id] >= SevenDays
       /\ \A id \in DOMAIN TaskEntries' :
              \/ id \in DOMAIN TaskEntries /\ TaskEntries'[id] = TaskEntries[id]
              \/ ev'.op \in {"checkTasks", "send"} /\ TaskEntries'[id] = Now
       /\ \/ StoredSubs' = StoredSubs
          \/ \E e \in Endpoints \ Registered :
                 StoredSubs' = Append(StoredSubs, [endpoint |-> e, createdAt |-> Now])
          \/ \E e \in Registered : StoredSubs' = Without(StoredSubs, e)]_vars
\* at 20:00 the reminder is marked, the old entry of t2 has been purged, t1
\* is marked and one of the two subscriptions has been removed
C35_AllWritersDone ==
    /\ elapsed = 2
    /\ jobs = {}
    /\ LastSent = Some(DateStr(Now))
    /\ DOMAIN TaskEntries = {"t1"}
    /\ Len(StoredSubs) = 1

(* C36: when no readable state record exists, loadState returns an empty   *)
(* taskNotifications map and a null habitReminderLastSent independently of  *)
(* every operation performed earlier in the same process.                   *)
C36_FreshDefaultState ==
    (ev.op = "read" /\ fout # Null /\ Unreadable(stateFile)) =>
        fout[1].state = [habitReminderLastSent |-> Null, taskNotifications |-> <<>>]

(* C37: the frontend pre-filter and the server check agree: for every task *)
(* and every instant, filterNotifiableTasks keeps the task if and only if   *)
(* POST /check-tasks evaluated at the same instant would treat it as        *)
(* eligible before the dedup lookup.                                        *)
C37_FilterAgreesWithServer ==
    fout # Null => (fout[1].kept <=> fout[1].eligible)
\* the same, for a browser and a server in the same zone
C37_AgreesInOneZone ==
    (fout # Null /\ fin.browserTz = tz) => (fout[1].kept <=> fout[1].eligible)

(* C38: task polling pauses while the tab is inactive: no checkTasks run   *)
(* is started by the initial delayed check or by the 5-minute interval      *)
(* while the document is hidden; a check runs when the tab becomes visible  *)
(* again while polling is active.                                           *)
C38_NoCheckWhileHidden ==
    ev.op = "hook" =>
        /\ (ev.step \in {"timeout", "interval"} /\ ev.check) => ev.visible
        /\ (ev.step = "visibility" /\ ev.visible /\ ev.active /\ ev.mounted) => ev.check

(* C39: after the polling hook is stopped (stopPolling or the unmount       *)
(* cleanup) no further checkTasks run is started and no interval remains    *)
(* scheduled, for every interleaving of initPolling, the initial delayed    *)
(* check and repeated start/stop calls; at most one interval is active at   *)
(* any time.                                                                *)
C39_StoppedStaysStopped ==
    /\ hook.stopped => hook.intervals = {}
    /\ (ev.op = "hook" /\ ev.check) => ~ev.stopped
    /\ Cardinality(hook.intervals) <= 1
\* at most one interval whatever the interleaving
C39_AtMostOneInterval == Cardinality(hook.intervals) <= 1

(* C40: saveAppData is atomic: if any write inside it fails, the call      *)
(* throws and the stored habits, tasks, settings and schema version are     *)
(* the same as before the call.                                             *)
C40_SaveAllOrNothing ==
    fout # Null =>
        /\ fout[1].thrown => loadAppData(localStorage) = loadAppData(fin.before)
        /\ ~fout[1].thrown =>
               \A f \in DOMAIN fin.data : loadAppData(localStorage)[f] = fin.data[f]

====
